---- MODULE Spec2Model ----
(***************************************************************************)
(* PaperGraph: the persistent store (storage/database.ts), the build       *)
(* orchestrator (builder/graph-builder.ts), the graph algorithms           *)
(* (graph/algorithms.ts), the HTTP transport (utils/http-client.ts) and    *)
(* the response cache (cache/response-cache.ts).                           *)
(***************************************************************************)
EXTENDS Integers, Sequences, FiniteSets, TLC

VARIABLES
    papers,           \* table papers, in paper_id order; paper_id = index
    edges,            \* table edges, in edge_id order
    clusters,         \* table clusters, in cluster_id order
    paper_clusters,   \* table paper_clusters: set of <<paper_id, cluster_id>>
    runs,             \* table runs, in run_id order
    lastInsertRowid,  \* sqlite3_last_insert_rowid of the connection
    dbOpen,           \* the connection is open
    calls,            \* SpecStore: the calls issued so far: op, argument, result, pre-state
    now,              \* Date.now(), in ms
    srcKey,           \* the source key of the bucket in use
    tokens,           \* TokenBucket.tokens of that bucket, in 1/1000 token
    lastRefill,       \* TokenBucket.lastRefill
    cpc,              \* SpecBucket: per caller of acquire(): "idle", "waiting", "proceeded"
    wakeAt,           \* SpecBucket: per waiting caller, the time its sleep(waitMs) ends
    taken,            \* SpecBucket: the acquisitions so far: caller, time, balance found, waited
    hpc,              \* HttpClient.request: "idle", "acquireWait", "fetch", "backoff", "returned", "thrown"
    req,              \* the request in progress: url, method
    attempt,          \* the retry loop's attempt
    pendingSleep,     \* ms of the sleep() the request is awaiting
    nfetch,           \* outbound fetch() calls of this request so far
    lastOutcome,      \* what the last fetch() of this request did
    retriedOnly,      \* every fetch() of this request that was followed by another had a retryable outcome
    nsleeps,          \* backoff sleeps of this request so far
    lastSleep,        \* the last backoff sleep: after which fetch(), how many ms
    result,           \* what request() returned or threw
    requestCounts,    \* HttpClient.requestCounts of the source key
    nreq,             \* number of request() calls so far
    succeeded,        \* per URL and method GET: time the last successful response returned, or Null
    fresh,            \* the request in progress follows a successful GET of its URL within the TTL
    cacheFiles,       \* ResponseCache: the files of cacheDir, entry {timestamp, url, data} by key
    bpc,              \* buildGraph: "findSeeds", "insertSeeds", "depth", "papers", "analytic",
                      \*   "clusters", "scores", "run", "returned", "thrown"
    config,           \* PaperGraphConfig of the build
    topicResults,     \* what adapter.searchByTopic answers, once asked
    references,       \* per source id, what adapter.fetchReferences answers, once asked
    seedPapers,       \* buildGraph: seedPapers
    frontier,         \* traverseCitations: frontier
    todo,             \* traverseCitations: the part of frontier the inner loop has still to visit
    nextFrontier,     \* traverseCitations: nextFrontier
    visited,          \* traverseCitations: visited
    edgeSeen,         \* traverseCitations: edgeSeen
    dLoop,            \* traverseCitations: d, the depth loop's counter
    atCapacity,       \* traverseCitations: atCapacity
    skipped,          \* keys of the references the traversal skipped for lack of room
    closes,           \* number of db.close() calls of this build
    opAfterClose,     \* a store operation was issued on the closed handle
    buildNo,          \* which build this is
    snap,             \* what the previous build persisted
    faults,           \* the calls of the traversal that have thrown, in order
    atFault,          \* what the store held when the latest of them threw
    placed,           \* traverseCitations: the source ids put into a frontier so far, in order
    fOp,              \* a function applied on its own: which one, or "none"
    fIn,              \* its arguments
    fOut              \* what it returned

storeVars == <<papers, edges, clusters, paper_clusters, runs, lastInsertRowid, dbOpen>>
bucketVars == <<now, srcKey, tokens, lastRefill, cpc, wakeAt, taken>>
httpVars == <<hpc, req, attempt, pendingSleep, nfetch, lastOutcome, retriedOnly, nsleeps,
              lastSleep, result, requestCounts, nreq, succeeded, fresh, cacheFiles>>
buildVars == <<bpc, config, topicResults, references, seedPapers, frontier, todo, nextFrontier,
               visited, edgeSeen, dLoop, atCapacity, skipped, closes, opAfterClose, buildNo, snap, faults,
               atFault, placed>>
fnVars == <<fOp, fIn, fOut>>
vars == <<storeVars, calls, bucketVars, httpVars, buildVars, fnVars>>

\* ------------------------------------------------------------------------
\* Bounds of the model
\* ------------------------------------------------------------------------
NumIds == 1        \* source ids per source
MaxCites == 1      \* citation counts 0..MaxCites
MaxBatch == 2      \* longest batch handed to insertPapers
MaxCalls == 3      \* SpecStore issues at most this many calls
NumCallers == 3    \* SpecBucket: concurrent callers of request() on one source key
TickMs == 500      \* SpecBucket: the clock advances in steps of TickMs
MaxTicks == 6      \* SpecBucket: the clock stops after MaxTicks steps
MaxRequests == 2   \* SpecHttp: request() calls, one after the other
MaxRetryAfter == 3 \* SpecHttp: largest Retry-After value in seconds

Null == -1         \* SQL NULL / undefined

Max(a, b) == IF a >= b THEN a ELSE b
Min(a, b) == IF a <= b THEN a ELSE b
Range(s) == {s[i] : i \in 1..Len(s)}
Coalesce(a, b) == IF a # Null THEN a ELSE b

\* ------------------------------------------------------------------------
\* storage/database.ts
\* ------------------------------------------------------------------------
Sources == {"openalex", "s2"}
Titles == {"Original Title", "Updated Title"}

\* Paper records as the callers hand them to the store (no paper_id).
PaperValues ==
    [source : Sources, source_id : 1..NumIds, title : Titles,
     citation_count : 0..MaxCites, influence_score : {Null}]

\* SELECT * FROM papers WHERE source = ? AND source_id = ?  (index of the row, or Null)
getPaperBySourceId(tbl, source, sourceId) ==
    IF \E i \in 1..Len(tbl) : tbl[i].source = source /\ tbl[i].source_id = sourceId
    THEN CHOOSE i \in 1..Len(tbl) : tbl[i].source = source /\ tbl[i].source_id = sourceId
    ELSE Null

getPaperCount(tbl) == Len(tbl)

\* Mutant: a plain INSERT that does not check the unique index.
insertOrIgnorePaper_NoIgnore(st, paper) ==
    [tbl |-> Append(st.tbl, paper),
     ids |-> Append(st.ids, Len(st.tbl) + 1),
     rowid |-> Len(st.tbl) + 1]

\* Mutant: an ignored INSERT pushes no id (the secondary lookup is missing).
insertOrIgnorePaper_NoLookup(st, paper) ==
    LET existing == getPaperBySourceId(st.tbl, paper.source, paper.source_id)
    IN  IF existing = Null
        THEN [tbl |-> Append(st.tbl, paper),
              ids |-> Append(st.ids, Len(st.tbl) + 1),
              rowid |-> Len(st.tbl) + 1]
        ELSE [tbl |-> st.tbl, ids |-> st.ids, rowid |-> st.rowid]

\* One INSERT OR IGNORE INTO papers: the unique index on (source, source_id)
\* makes the statement a no-op when the key is stored.
\* st = [tbl, ids, rowid]
insertOrIgnorePaper(st, paper) ==
    LET existing == getPaperBySourceId(st.tbl, paper.source, paper.source_id)
    IN  IF existing = Null
        THEN [tbl |-> Append(st.tbl, paper),
              ids |-> Append(st.ids, Len(st.tbl) + 1),
              rowid |-> Len(st.tbl) + 1]
        ELSE [tbl |-> st.tbl, ids |-> Append(st.ids, existing), rowid |-> st.rowid]

\* Mutant: a transaction that commits what ran before the exception.
transaction_NoRollback(pre, post) == post

\* db.transaction(fn)(): BEGIN, fn, COMMIT; an exception inside fn rolls the
\* statements back and is rethrown. pre and post are what the call held before
\* fn and where fn ended or threw.
transaction(pre, post) == IF post.ok THEN post ELSE [pre EXCEPT !.ok = FALSE]

\* stmt.run(paper) binds the named parameters @source, @source_id, @title, ...
\* from the object and throws when one of them is missing.
PaperFields == {"source", "source_id", "title", "citation_count", "influence_score"}
bindable(paper) == DOMAIN paper = PaperFields

\* The body of insertAll: the statements of the batch, up to the first that throws.
\* st = [tbl, ids, rowid, ok]
RECURSIVE insertAllPapers(_, _)
insertAllPapers(st, batch) ==
    IF batch = <<>> \/ ~st.ok THEN st
    ELSE IF ~bindable(Head(batch)) THEN [st EXCEPT !.ok = FALSE]
    ELSE LET r == insertOrIgnorePaper(st, Head(batch))
         IN  insertAllPapers([tbl |-> r.tbl, ids |-> r.ids, rowid |-> r.rowid, ok |-> TRUE],
                             Tail(batch))

\* insertPapers(papers): [tbl, ids, rowid, ok] after the transaction
insertPapers(tbl, rowid, batch) ==
    LET pre == [tbl |-> tbl, ids |-> <<>>, rowid |-> rowid, ok |-> TRUE]
    IN  transaction(pre, insertAllPapers(pre, batch))

\* Mutant: citation_count = excluded.citation_count instead of MAX(...).
mergeRow_NoMax(old, excluded) ==
    [source |-> old.source,
     source_id |-> old.source_id,
     title |-> excluded.title,
     citation_count |-> excluded.citation_count,
     influence_score |-> Coalesce(excluded.influence_score, old.influence_score)]

\* The ON CONFLICT(source, source_id) DO UPDATE SET clause.
mergeRow(old, excluded) ==
    [source |-> old.source,
     source_id |-> old.source_id,
     title |-> excluded.title,
     citation_count |-> Max(old.citation_count, excluded.citation_count),
     influence_score |-> Coalesce(excluded.influence_score, old.influence_score)]

\* upsertPaper(paper): [tbl, id, rowid]. An UPDATE through ON CONFLICT changes one
\* row and leaves the connection's last insert rowid as it was.
upsertPaper(tbl, rowid, paper) ==
    LET existing == getPaperBySourceId(tbl, paper.source, paper.source_id)
        tbl2 == IF existing = Null THEN Append(tbl, paper)
                ELSE [tbl EXCEPT ![existing] = mergeRow(tbl[existing], paper)]
        rowid2 == IF existing = Null THEN Len(tbl) + 1 ELSE rowid
        changes == 1
    IN  [tbl |-> tbl2,
         rowid |-> rowid2,
         id |-> IF changes > 0 /\ rowid2 # 0 THEN rowid2
                ELSE getPaperBySourceId(tbl2, paper.source, paper.source_id)]

\* ------------------------------------------------------------------------
\* SpecStore: any sequence of insertPapers / upsertPaper calls on one handle
\* ------------------------------------------------------------------------
\* Batches of 1..MaxBatch papers over every choice of keys (repeats included);
\* the papers of one batch carry the same title and citation count.
Keys == Sources \X (1..NumIds)
Batches ==
    UNION {{[i \in 1..n |-> [source |-> ks[i][1], source_id |-> ks[i][2], title |-> t,
                             citation_count |-> c, influence_score |-> Null]] :
               ks \in [1..n -> Keys], t \in Titles, c \in 0..MaxCites} : n \in 1..MaxBatch}

StoreIdle ==
    /\ papers = <<>>
    /\ edges = <<>>
    /\ clusters = <<>>
    /\ paper_clusters = {}
    /\ runs = <<>>
    /\ lastInsertRowid = 0
    /\ dbOpen = TRUE
    /\ calls = <<>>

BucketIdle ==
    /\ now = 0
    /\ srcKey = "default"
    /\ tokens = 0
    /\ lastRefill = 0
    /\ cpc = <<>>
    /\ wakeAt = <<>>
    /\ taken = <<>>

HttpIdle ==
    /\ hpc = "idle"
    /\ req = [url |-> "", method |-> "GET"]
    /\ attempt = 0
    /\ pendingSleep = 0
    /\ nfetch = 0
    /\ lastOutcome = [kind |-> "none"]
    /\ retriedOnly = TRUE
    /\ nsleeps = 0
    /\ lastSleep = [after |-> 0, ms |-> 0]
    /\ result = [kind |-> "none"]
    /\ requestCounts = 0
    /\ nreq = 0
    /\ succeeded = <<>>
    /\ fresh = FALSE
    /\ cacheFiles = <<>>

\* No build is in progress.
Unfetched == <<0>>   \* the adapter has not been asked yet

BuildIdle ==
    /\ bpc = "idle"
    /\ config = [source |-> "openalex", spine |-> "citation", depth |-> 0, maxPapers |-> 1]
    /\ topicResults = Unfetched
    /\ references = <<>>
    /\ seedPapers = <<>>
    /\ frontier = <<>>
    /\ todo = <<>>
    /\ nextFrontier = <<>>
    /\ visited = {}
    /\ edgeSeen = {}
    /\ dLoop = 0
    /\ atCapacity = FALSE
    /\ skipped = {}
    /\ closes = 0
    /\ opAfterClose = FALSE
    /\ buildNo = 0
    /\ snap = <<>>
    /\ faults = <<>>
    /\ atFault = <<>>
    /\ placed = <<>>

\* No function is applied on its own.
FnIdle ==
    /\ fOp = "none"
    /\ fIn = <<>>
    /\ fOut = <<>>

InitStore == StoreIdle /\ BucketIdle /\ HttpIdle /\ BuildIdle /\ FnIdle

InsertPapersCall ==
    /\ Len(calls) < MaxCalls
    /\ \E batch \in Batches :
         LET r == insertPapers(papers, lastInsertRowid, batch)
         IN  /\ papers' = r.tbl
             /\ lastInsertRowid' = r.rowid
             /\ calls' = Append(calls, [op |-> "insertPapers", arg |-> batch,
                                        ret |-> r.ids, before |-> papers])
    /\ UNCHANGED <<edges, clusters, paper_clusters, runs, dbOpen, bucketVars, httpVars, buildVars, fnVars>>

UpsertPaperCall ==
    /\ Len(calls) < MaxCalls
    /\ \E paper \in PaperValues :
         LET r == upsertPaper(papers, lastInsertRowid, paper)
         IN  /\ papers' = r.tbl
             /\ lastInsertRowid' = r.rowid
             /\ calls' = Append(calls, [op |-> "upsertPaper", arg |-> <<paper>>,
                                        ret |-> <<r.id>>, before |-> papers])
    /\ UNCHANGED <<edges, clusters, paper_clusters, runs, dbOpen, bucketVars, httpVars, buildVars, fnVars>>



NextStore == InsertPapersCall \/ UpsertPaperCall

SpecStore == InitStore /\ [][NextStore]_vars

\* ------------------------------------------------------------------------
\* utils/http-client.ts: TokenBucket
\* ------------------------------------------------------------------------
OneToken == 1000   \* one token, in the model's unit of 1/1000 token

\* RATE_LIMITS: tokensPerSecond and maxBurst per source key
RATE_LIMITS ==
    [openalex |-> [tokensPerSecond |-> 10, maxBurst |-> 10],
     s2 |-> [tokensPerSecond |-> 1, maxBurst |-> 1],
     openai |-> [tokensPerSecond |-> 5, maxBurst |-> 5],
     ollama |-> [tokensPerSecond |-> 100, maxBurst |-> 100],
     default |-> [tokensPerSecond |-> 5, maxBurst |-> 5]]

SourceKeys == {"openalex", "s2", "openai", "ollama", "default"}

\* new TokenBucket(tokensPerSecond, maxTokens): tokens = maxTokens
newBucketTokens(src) == RATE_LIMITS[src].maxBurst * OneToken

\* refill(): tokens = min(maxTokens, tokens + elapsed * tokensPerSecond).
\* elapsed is (t - lastRefill) / 1000 seconds, so in 1/1000 token the gain is
\* (t - lastRefill) * tokensPerSecond.
refill(src, tok, last, t) ==
    Min(RATE_LIMITS[src].maxBurst * OneToken, tok + (t - last) * RATE_LIMITS[src].tokensPerSecond)

\* waitMs = ((1 - tokens) / tokensPerSecond) * 1000, rounded up to a whole ms
waitMs(src, tok) ==
    LET r == RATE_LIMITS[src].tokensPerSecond
    IN  ((OneToken - tok) + r - 1) \div r

Callers == 1..NumCallers

InitBucket ==
    /\ StoreIdle
    /\ HttpIdle
    /\ BuildIdle
    /\ FnIdle
    /\ now = 0
    /\ srcKey \in SourceKeys
    /\ tokens = newBucketTokens(srcKey)
    /\ lastRefill = 0
    /\ cpc = [c \in Callers |-> "idle"]
    /\ wakeAt = [c \in Callers |-> 0]
    /\ taken = <<>>

\* acquire() up to its await: refill, then either take a token and return, or
\* compute waitMs and go to sleep.
AcquireCall(c) ==
    /\ cpc[c] = "idle"
    /\ LET tok == refill(srcKey, tokens, lastRefill, now)
       IN  /\ lastRefill' = now
           /\ IF tok >= OneToken
              THEN /\ tokens' = tok - OneToken
                   /\ cpc' = [cpc EXCEPT ![c] = "proceeded"]
                   /\ taken' = Append(taken, [caller |-> c, at |-> now, found |-> tok,
                                              waited |-> FALSE])
                   /\ UNCHANGED wakeAt
              ELSE /\ tokens' = tok
                   /\ cpc' = [cpc EXCEPT ![c] = "waiting"]
                   /\ wakeAt' = [wakeAt EXCEPT ![c] = now + waitMs(srcKey, tok)]
                   /\ UNCHANGED taken
    /\ UNCHANGED <<now, srcKey, storeVars, calls, httpVars, buildVars, fnVars>>

\* acquire() after its await sleep(waitMs): refill and take a token, whatever
\* the balance is.
AcquireWake(c) ==
    /\ cpc[c] = "waiting"
    /\ now >= wakeAt[c]
    /\ LET tok == refill(srcKey, tokens, lastRefill, now)
       IN  /\ lastRefill' = now
           /\ tokens' = tok - OneToken
           /\ taken' = Append(taken, [caller |-> c, at |-> now, found |-> tok,
                                      waited |-> TRUE])
    /\ cpc' = [cpc EXCEPT ![c] = "proceeded"]
    /\ UNCHANGED <<now, srcKey, wakeAt, storeVars, calls, httpVars, buildVars, fnVars>>

\* Time passes.
Tick ==
    /\ now < MaxTicks * TickMs
    /\ now' = now + TickMs
    /\ UNCHANGED <<srcKey, tokens, lastRefill, cpc, wakeAt, taken, storeVars, calls, httpVars, buildVars, fnVars>>

NextBucket == (\E c \in Callers : AcquireCall(c) \/ AcquireWake(c)) \/ Tick

SpecBucket == InitBucket /\ [][NextBucket]_vars

\* ------------------------------------------------------------------------
\* utils/http-client.ts: HttpClient.request
\* ------------------------------------------------------------------------
RETRYABLE_STATUS_CODES == {429, 500, 502, 503, 504}
RETRYABLE_ERROR_CODES ==
    {"ECONNRESET", "ECONNREFUSED", "ETIMEDOUT", "UND_ERR_SOCKET", "UND_ERR_CONNECT_TIMEOUT"}

maxRetries == 3
initialBackoff == 1000
maxBackoff == 30000
TtlMs == 86400000     \* ResponseCache: 24 hours

Urls == {"https://api.example.com/1", "https://api.example.com/2"}

\* Retry-After headers a response may carry: none, integer seconds, an HTTP
\* date (n = its time in ms), or text that is neither.
NoHeader == [form |-> "none", n |-> 0]
RetryAfterHeaders(t) ==
    {NoHeader, [form |-> "garbage", n |-> 0]}
        \cup {[form |-> "seconds", n |-> n] : n \in {0, MaxRetryAfter}}
        \cup {[form |-> "date", n |-> t + d] : d \in {-1000, MaxRetryAfter * 1000}}

\* What one fetch() can do: resolve with a status (and a Retry-After header),
\* or reject with an error that has a name and maybe a code.
StatusOutcome(st, h) == [kind |-> "status", status |-> st, retryAfter |-> h, code |-> "", name |-> ""]
ErrorOutcome(code, name) == [kind |-> "error", status |-> 0, retryAfter |-> NoHeader, code |-> code, name |-> name]
NoOutcome == [kind |-> "none", status |-> 0, retryAfter |-> NoHeader, code |-> "", name |-> ""]
FetchOutcomes(t) ==
    {StatusOutcome(st, NoHeader) : st \in {200, 404, 500}}
        \cup {StatusOutcome(429, h) : h \in RetryAfterHeaders(t)}
        \cup {StatusOutcome(503, [form |-> "seconds", n |-> MaxRetryAfter])}
        \cup {ErrorOutcome("ECONNRESET", "Error"), ErrorOutcome("ENOTFOUND", "Error"),
              ErrorOutcome("", "AbortError")}

\* The failures the transport is to retry: a status of RETRYABLE_STATUS_CODES,
\* or a connection / reset / timeout error.
IsRetryable(o) ==
    \/ o.kind = "status" /\ o.status \in {429, 500, 502, 503, 504}
    \/ o.kind = "error" /\ (o.code \in {"ECONNRESET", "ETIMEDOUT"} \/ o.name = "AbortError")

\* response.ok
ResponseOk(o) == o.kind = "status" /\ o.status >= 200 /\ o.status <= 299

\* Mutant: the seconds of the header taken as ms.
parseRetryAfter_Seconds(h, t) ==
    CASE h.form = "none" -> Null
      [] h.form = "seconds" -> h.n
      [] h.form = "date" -> Max(0, h.n - t)
      [] OTHER -> Null

\* parseRetryAfter(header): ms, or Null
parseRetryAfter(h, t) ==
    CASE h.form = "none" -> Null
      [] h.form = "seconds" -> h.n * 1000
      [] h.form = "date" -> Max(0, h.n - t)
      [] OTHER -> Null

RECURSIVE Pow2(_)
Pow2(n) == IF n = 0 THEN 1 ELSE 2 * Pow2(n - 1)

\* Math.random() * exponential * 0.5 lies in [0, exponential / 2): its two ends
Jitters(exponential) == {0, (exponential \div 2) - 1}

\* calculateBackoff(attempt, initial, max), for one value of the jitter
calculateBackoff(att, initial, max, jitter) ==
    LET exponential == initial * Pow2(att)
    IN  Min(max, exponential + jitter)

\* `retryable` as the two branches of request() compute it
RetryableOutcome(o) ==
    IF o.kind = "status" THEN o.status \in RETRYABLE_STATUS_CODES
    ELSE o.code # "" /\ o.code \in RETRYABLE_ERROR_CODES

\* Mutant: the loop retries on its last attempt too.
ShouldRetry_Always(o, att) == RetryableOutcome(o)

\* The retry loop's test
ShouldRetry(o, att) == RetryableOutcome(o) /\ att < maxRetries

\* The HttpError the loop throws for an outcome it does not retry
ThrownFor(o) ==
    IF o.kind = "status"
    THEN [kind |-> "HttpError", status |-> o.status, retryable |-> RetryableOutcome(o)]
    ELSE IF o.name = "AbortError"
         THEN [kind |-> "HttpError", status |-> 0, retryable |-> TRUE]
         ELSE [kind |-> "HttpError", status |-> 0, retryable |-> RetryableOutcome(o)]

InitHttp ==
    /\ StoreIdle
    /\ BuildIdle
    /\ FnIdle
    /\ now = 0
    /\ srcKey \in {"s2", "openalex"}
    /\ tokens = newBucketTokens(srcKey)
    /\ lastRefill = 0
    /\ cpc = <<>>
    /\ wakeAt = <<>>
    /\ taken = <<>>
    /\ hpc = "idle"
    /\ req = [url |-> "", method |-> "GET"]
    /\ attempt = 0
    /\ pendingSleep = 0
    /\ nfetch = 0
    /\ lastOutcome = NoOutcome
    /\ retriedOnly = TRUE
    /\ nsleeps = 0
    /\ lastSleep = [after |-> 0, ms |-> 0]
    /\ result = [kind |-> "none"]
    /\ requestCounts = 0
    /\ nreq = 0
    /\ succeeded = [u \in Urls |-> Null]
    /\ fresh = FALSE
    /\ cacheFiles = <<>>

\* request(url) up to its first await: getBucket(source).acquire(), which either
\* takes a token at once or sleeps waitMs.
StartRequest ==
    /\ hpc \in {"idle", "returned", "thrown"}
    /\ nreq < MaxRequests
    /\ \E u \in Urls :
         /\ req' = [url |-> u, method |-> "GET"]
         /\ fresh' = (succeeded[u] # Null /\ now - succeeded[u] <= TtlMs)
    /\ nreq' = nreq + 1
    /\ attempt' = 0
    /\ nfetch' = 0
    /\ lastOutcome' = NoOutcome
    /\ retriedOnly' = TRUE
    /\ nsleeps' = 0
    /\ lastSleep' = [after |-> 0, ms |-> 0]
    /\ result' = [kind |-> "none"]
    /\ LET tok == refill(srcKey, tokens, lastRefill, now)
       IN  /\ lastRefill' = now
           /\ IF tok >= OneToken
              THEN /\ tokens' = tok - OneToken
                   /\ requestCounts' = requestCounts + 1
                   /\ hpc' = "fetch"
                   /\ pendingSleep' = 0
              ELSE /\ tokens' = tok
                   /\ requestCounts' = requestCounts
                   /\ hpc' = "acquireWait"
                   /\ pendingSleep' = waitMs(srcKey, tok)
    /\ UNCHANGED <<now, srcKey, cpc, wakeAt, taken, succeeded, cacheFiles, storeVars, calls, buildVars, fnVars>>

\* acquire() after its sleep; then the request is counted and the loop starts.
AcquireResume ==
    /\ hpc = "acquireWait"
    /\ now' = now + pendingSleep
    /\ tokens' = refill(srcKey, tokens, lastRefill, now') - OneToken
    /\ lastRefill' = now'
    /\ requestCounts' = requestCounts + 1
    /\ pendingSleep' = 0
    /\ hpc' = "fetch"
    /\ UNCHANGED <<srcKey, cpc, wakeAt, taken, req, attempt, nfetch, lastOutcome, retriedOnly,
                   nsleeps, lastSleep, result, nreq, succeeded, fresh, cacheFiles,
                   storeVars, calls, buildVars, fnVars>>

\* One iteration of the retry loop, from fetch() to return, throw or sleep(backoff).
Fetch ==
    /\ hpc = "fetch"
    /\ \E o \in FetchOutcomes(now) :
         /\ nfetch' = nfetch + 1
         /\ lastOutcome' = o
         /\ IF ResponseOk(o)
            THEN /\ result' = [kind |-> "response", status |-> o.status, retryable |-> FALSE]
                 /\ hpc' = "returned"
                 /\ succeeded' = [succeeded EXCEPT ![req.url] = now]
                 /\ pendingSleep' = 0
            ELSE IF ShouldRetry(o, attempt)
            THEN /\ \E jitter \in Jitters(initialBackoff * Pow2(attempt)) :
                      LET retryAfter == IF o.kind = "status"
                                        THEN parseRetryAfter(o.retryAfter, now) ELSE Null
                          backoff == calculateBackoff(attempt, initialBackoff, maxBackoff, jitter)
                      IN  pendingSleep' = IF retryAfter # Null THEN retryAfter ELSE backoff
                 /\ hpc' = "backoff"
                 /\ UNCHANGED <<result, succeeded>>
            ELSE /\ result' = ThrownFor(o)
                 /\ hpc' = "thrown"
                 /\ pendingSleep' = 0
                 /\ UNCHANGED succeeded
    /\ UNCHANGED <<bucketVars, req, attempt, retriedOnly, nsleeps, lastSleep, requestCounts,
                   nreq, fresh, cacheFiles, storeVars, calls, buildVars, fnVars>>

\* await sleep(backoff); continue
BackoffDone ==
    /\ hpc = "backoff"
    /\ now' = now + pendingSleep
    /\ nsleeps' = nsleeps + 1
    /\ lastSleep' = [after |-> nfetch, ms |-> pendingSleep]
    /\ retriedOnly' = (retriedOnly /\ IsRetryable(lastOutcome))
    /\ attempt' = attempt + 1
    /\ pendingSleep' = 0
    /\ hpc' = "fetch"
    /\ UNCHANGED <<srcKey, tokens, lastRefill, cpc, wakeAt, taken, req, nfetch, lastOutcome,
                   result, requestCounts, nreq, succeeded, fresh, cacheFiles, storeVars, calls, buildVars, fnVars>>

NextHttp == StartRequest \/ AcquireResume \/ Fetch \/ BackoffDone

SpecHttp == InitHttp /\ [][NextHttp]_vars

\* fetch() settles (the timeout aborts it otherwise) and timers fire.
SpecHttpFair ==
    SpecHttp /\ WF_vars(AcquireResume) /\ WF_vars(Fetch) /\ WF_vars(BackoffDone)

\* ------------------------------------------------------------------------
\* storage/database.ts: edges, clusters, runs, scores
\* ------------------------------------------------------------------------
\* The body of insertAll: one plain INSERT per edge, up to the first that throws.
\* foreign_keys = ON: an endpoint that is no stored paper_id fails the statement.
\* st = [ok, tbl, rowid]
RECURSIVE insertAllEdges(_, _, _)
insertAllEdges(st, papersTbl, batch) ==
    IF batch = <<>> \/ ~st.ok THEN st
    ELSE IF /\ Head(batch).src_paper_id \in 1..Len(papersTbl)
            /\ Head(batch).dst_paper_id \in 1..Len(papersTbl)
    THEN insertAllEdges([ok |-> TRUE, tbl |-> Append(st.tbl, Head(batch)),
                         rowid |-> Len(st.tbl) + 1], papersTbl, Tail(batch))
    ELSE [st EXCEPT !.ok = FALSE]

\* insertEdges(edges): [ok, tbl, rowid] after the transaction
insertEdges(edgesTbl, papersTbl, rowid, batch) ==
    LET pre == [ok |-> TRUE, tbl |-> edgesTbl, rowid |-> rowid]
    IN  transaction(pre, insertAllEdges(pre, papersTbl, batch))

\* linkStmt.run(paperId, clusterId) for the members of one cluster: INSERT OR
\* IGNORE skips a stored (paper_id, cluster_id) and throws on a paper_id that is
\* no stored paper.  st = [ok, clusters, paper_clusters, rowid]
RECURSIVE linkPapers(_, _, _, _)
linkPapers(st, papersTbl, paperIds, clusterId) ==
    IF paperIds = <<>> \/ ~st.ok THEN st
    ELSE IF Head(paperIds) \notin 1..Len(papersTbl) THEN [st EXCEPT !.ok = FALSE]
    ELSE IF <<Head(paperIds), clusterId>> \in st.paper_clusters
    THEN linkPapers(st, papersTbl, Tail(paperIds), clusterId)
    ELSE CHOOSE out \in {linkPapers(next, papersTbl, Tail(paperIds), clusterId) :
                            next \in {[st EXCEPT
                                         !.paper_clusters = @ \cup {<<Head(paperIds), clusterId>>},
                                         !.rowid = Cardinality(st.paper_clusters) + 1]}} :
            TRUE

\* The body of insertAll: per cluster its INSERT, then the links of
\* paperMappings.get(clusterIndex) ?? [].
RECURSIVE insertAllClusters(_, _, _, _, _)
insertAllClusters(st, papersTbl, batch, paperMappings, clusterIndex) ==
    IF clusterIndex > Len(batch) \/ ~st.ok THEN st
    ELSE LET clusterId == Len(st.clusters) + 1
             paperIds == IF clusterIndex \in DOMAIN paperMappings
                         THEN paperMappings[clusterIndex] ELSE <<>>
             st1 == [st EXCEPT !.clusters = Append(@, batch[clusterIndex]),
                               !.rowid = clusterId]
         IN  CHOOSE out \in {insertAllClusters(next, papersTbl, batch, paperMappings,
                                               clusterIndex + 1) :
                                 next \in {linkPapers(st1, papersTbl, paperIds, clusterId)}} :
                 TRUE

\* insertClusters(clusters, paperMappings): [ok, clusters, paper_clusters, rowid]
\* after the transaction
insertClusters(clustersTbl, linksTbl, papersTbl, rowid, batch, paperMappings) ==
    LET pre == [ok |-> TRUE, clusters |-> clustersTbl, paper_clusters |-> linksTbl,
                rowid |-> rowid]
    IN  transaction(pre, insertAllClusters(pre, papersTbl, batch, paperMappings, 1))

\* getStats()
getStats(papersTbl, edgesTbl, clustersTbl, runsTbl) ==
    [papers |-> Len(papersTbl), edges |-> Len(edgesTbl), clusters |-> Len(clustersTbl),
     runs |-> Len(runsTbl),
     edgesByType |-> [t \in {edgesTbl[i].type : i \in 1..Len(edgesTbl)} |->
                        Cardinality({i \in 1..Len(edgesTbl) : edgesTbl[i].type = t})]]

\* Mutant: close() that leaves the connection open.
close_Leak(open) == open

\* close()
close(open) == FALSE

\* ------------------------------------------------------------------------
\* graph/algorithms.ts
\* ------------------------------------------------------------------------
PRIters == 2        \* power iterations of the PageRank of the model
PRScale == 1000     \* PageRank scores in 1/1000
Alpha == 850        \* alpha = 0.85, in 1/1000

RECURSIVE Sum(_, _)
Sum(f, S) == IF S = {} THEN 0
             ELSE LET x == CHOOSE x \in S : TRUE IN f[x] + Sum(f, S \ {x})

\* The elements of a sequence in the order of their first occurrence (the
\* iteration order of a Set / the keys of a Map filled in that order).
RECURSIVE Dedup(_)
Dedup(s) == IF s = <<>> THEN <<>>
            ELSE LET r == Dedup(SubSeq(s, 1, Len(s) - 1))
                 IN  IF s[Len(s)] \in Range(r) THEN r ELSE Append(r, s[Len(s)])

RECURSIVE Concat(_)
Concat(ss) == IF ss = <<>> THEN <<>> ELSE Head(ss) \o Concat(Tail(ss))

IsCites(e) == e.type = "CITES"
citesEdges(edgesTbl) == SelectSeq(edgesTbl, IsCites)

\* The directed graph computePageRank builds: one edge per (src, dst).
citesArcs(n, edgesTbl) ==
    {<<e.src_paper_id, e.dst_paper_id>> : e \in
        {x \in Range(citesEdges(edgesTbl)) : x.src_paper_id \in 1..n /\ x.dst_paper_id \in 1..n}}

RECURSIVE pagerankIterate(_, _, _, _)
pagerankIterate(r, n, arcs, k) ==
    IF k = 0 THEN r
    ELSE LET outdeg == [u \in 1..n |-> Cardinality({a \in arcs : a[1] = u})]
             dangling == {u \in 1..n : outdeg[u] = 0}
             share == [u \in 1..n |-> IF outdeg[u] = 0 THEN 0 ELSE r[u] \div outdeg[u]]
             next == [v \in 1..n |->
                        ((PRScale - Alpha) * (PRScale \div n)
                         + Alpha * (Sum(share, {u \in 1..n : <<u, v>> \in arcs})
                                    + (Sum(r, dangling) \div n))) \div PRScale]
         IN  pagerankIterate(next, n, arcs, k - 1)

\* computePageRank(papers, edges): paper_id -> score
computePageRank(papersTbl, edgesTbl) ==
    LET n == Len(papersTbl)
    IN  pagerankIterate([u \in 1..n |-> PRScale \div n], n, citesArcs(n, edgesTbl), PRIters)

\* new Graph({ allowSelfLoops: false }): addEdge(src, dst) with src = dst throws,
\* and computeLouvainClusters adds every edge whose endpoints are nodes.
louvainThrows(n, edgesTbl) ==
    \E i \in 1..Len(edgesTbl) : /\ edgesTbl[i].src_paper_id \in 1..n
                                /\ edgesTbl[i].src_paper_id = edgesTbl[i].dst_paper_id

\* The undirected graph computeLouvainClusters hands to louvain(): every edge type,
\* no self loops.
louvainArcs(n, edgesTbl) ==
    {<<e.src_paper_id, e.dst_paper_id>> : e \in
        {x \in Range(edgesTbl) : /\ x.src_paper_id \in 1..n /\ x.dst_paper_id \in 1..n
                                 /\ x.src_paper_id # x.dst_paper_id}}

\* louvain(graph, {resolution: 1.0}) runs with the library's default rng,
\* Math.random: which communities it returns is not fixed by the arguments. The
\* outcomes are the assignments node -> community (named by its least node) in
\* which a node shares a community only with nodes it is linked to.
louvainOutcomes(n, arcs) ==
    {c \in [1..n -> 1..n] :
        \A v \in 1..n :
            /\ c[v] <= v
            /\ c[c[v]] = c[v]
            /\ c[v] # v => \E w \in 1..n : /\ w # v /\ c[w] = c[v]
                                           /\ (<<v, w>> \in arcs \/ <<w, v>> \in arcs)}

\* Mutant: a paper is pushed to the list of every community up to its own.
clusterMembers_Overlapping(n, c) ==
    LET ids == Dedup([v \in 1..n |-> c[v]])
    IN  [k \in 1..Len(ids) |-> SelectSeq([v \in 1..n |-> v], LAMBDA v : c[v] >= ids[k])]

\* computeLouvainClusters + buildClusterObjects: the communities in the order of
\* their first node, each with the list of its members in paper_id order.
clusterMembers(n, c) ==
    LET ids == Dedup([v \in 1..n |-> c[v]])
    IN  [k \in 1..Len(ids) |-> SelectSeq([v \in 1..n |-> v], LAMBDA v : c[v] = ids[k])]

\* citing paper -> refs, both in insertion order
citingPapers(edgesTbl) ==
    LET ce == citesEdges(edgesTbl) IN Dedup([i \in 1..Len(ce) |-> ce[i].src_paper_id])

refsOf(edgesTbl, p) ==
    LET ce == SelectSeq(citesEdges(edgesTbl), LAMBDA e : e.src_paper_id = p)
    IN  Dedup([i \in 1..Len(ce) |-> ce[i].dst_paper_id])

\* The pairs (i < j) of one citing paper's refs, as keys <<min, max>>.
pairsOf(refs) ==
    Concat([i \in 1..Len(refs) |->
              [k \in 1..(Len(refs) - i) |->
                  <<Min(refs[i], refs[i + k]), Max(refs[i], refs[i + k])>>]])

\* computeCoCitation(edges)
computeCoCitation(edgesTbl) ==
    LET citing == citingPapers(edgesTbl)
        allPairs == Concat([i \in 1..Len(citing) |-> pairsOf(refsOf(edgesTbl, citing[i]))])
        keys == Dedup(allPairs)
        count(k) == Cardinality({i \in 1..Len(allPairs) : allPairs[i] = k})
        counts == {count(keys[i]) : i \in 1..Len(keys)} \cup {1}
        maxCount == CHOOSE m \in counts : \A x \in counts : x <= m
    IN  [i \in 1..Len(keys) |->
            [src_paper_id |-> keys[i][1], dst_paper_id |-> keys[i][2], type |-> "CO_CITED",
             weight |-> <<count(keys[i]), maxCount>>, provenance |-> count(keys[i])]]

\* computeBibCoupling(edges)
computeBibCoupling(edgesTbl) ==
    LET ps == citingPapers(edgesTbl)
        refs(p) == Range(refsOf(edgesTbl, p))
        overlap(a, b) == Cardinality(refs(a) \cap refs(b))
        row(i) == SelectSeq([k \in 1..(Len(ps) - i) |-> <<ps[i], ps[i + k]>>],
                            LAMBDA pr : overlap(pr[1], pr[2]) > 0)
        pairs == Concat([i \in 1..Len(ps) |-> row(i)])
    IN  [i \in 1..Len(pairs) |->
            [src_paper_id |-> pairs[i][1], dst_paper_id |-> pairs[i][2], type |-> "BIB_COUPLED",
             weight |-> <<overlap(pairs[i][1], pairs[i][2]),
                          Min(Cardinality(refs(pairs[i][1])), Cardinality(refs(pairs[i][2])))>>,
             provenance |-> overlap(pairs[i][1], pairs[i][2])]]

\* ------------------------------------------------------------------------
\* nlp/similarity.ts
\* ------------------------------------------------------------------------
NumDocs == 3        \* documents of a corpus: source ids 1..NumDocs
NumTerms == 2       \* terms of a corpus
MaxWeight == 1      \* TF-IDF weights 0..MaxWeight (cosine similarity ignores the scale)
MaxTopK == 2        \* topK ranges over 1..MaxTopK

DocIds == 1..NumDocs
Terms == 1..NumTerms
\* corpus.documents: per document its vector term -> weight, in document order.
Corpora == [DocIds -> [Terms -> 0..MaxWeight]]
\* Thresholds as fractions <<numerator, denominator>>: 0 and the default 0.25.
Thresholds == {<<0, 1>>, <<1, 4>>}

dot(vecA, vecB) == Sum([t \in Terms |-> vecA[t] * vecB[t]], Terms)

\* cosineSimilarity(vecA, vecB), squared, as a fraction <<numerator, denominator>>:
\* dotProduct / (sqrt(normA) * sqrt(normB)), and 0 when the denominator is 0.
cosineSimilarity(vecA, vecB) ==
    LET d == dot(vecA, vecB)
        denominator == dot(vecA, vecA) * dot(vecB, vecB)
    IN  IF denominator = 0 THEN <<0, 1>> ELSE <<d * d, denominator>>

\* sim >= threshold, both non-negative, sim given squared.
simAtLeast(sim, threshold) ==
    sim[1] * threshold[2] * threshold[2] >= threshold[1] * threshold[1] * sim[2]

\* a.similarity > b.similarity
simGreater(a, b) == a[1] * b[2] > b[1] * a[2]

\* similarities.sort((a, b) => b.similarity - a.similarity): stable, descending.
RECURSIVE sortBySimilarity(_)
sortBySimilarity(s) ==
    IF s = <<>> THEN <<>>
    ELSE LET rest == sortBySimilarity(Tail(s))
             x == Head(s)
             k == Cardinality({i \in 1..Len(rest) : simGreater(rest[i].similarity, x.similarity)})
         IN  SubSeq(rest, 1, k) \o <<x>> \o SubSeq(rest, k + 1, Len(rest))

\* findTopKSimilar(docId, corpus, k, threshold)
findTopKSimilar(docId, corpus, k, threshold) ==
    LET all == [i \in DocIds |-> [id |-> i, similarity |-> cosineSimilarity(corpus[docId], corpus[i])]]
        similarities == SelectSeq(all, LAMBDA n : n.id # docId /\ simAtLeast(n.similarity, threshold))
        sorted == sortBySimilarity(similarities)
    IN  SubSeq(sorted, 1, Min(k, Len(sorted)))

\* paperIdMap.get(sourceId): the paper_id, or Null
paperIdOf(paperIdMap, sourceId) ==
    IF \E i \in 1..Len(paperIdMap) : paperIdMap[i][1] = sourceId
    THEN paperIdMap[CHOOSE i \in 1..Len(paperIdMap) : paperIdMap[i][1] = sourceId][2]
    ELSE Null

\* The inner loop of buildSimilarityEdges over the neighbors of one paper.
\* acc = [edges, seenPairs]
RECURSIVE similarityNeighbors(_, _, _, _)
similarityNeighbors(acc, paperId, neighbors, paperIdMap) ==
    IF neighbors = <<>> THEN acc
    ELSE LET neighbor == Head(neighbors)
             neighborPaperId == paperIdOf(paperIdMap, neighbor.id)
             pairKey == <<Min(paperId, neighborPaperId), Max(paperId, neighborPaperId)>>
             acc1 == IF neighborPaperId = Null \/ pairKey \in acc.seenPairs THEN acc
                     ELSE [edges |-> Append(acc.edges,
                                      [src_paper_id |-> paperId, dst_paper_id |-> neighborPaperId,
                                       type |-> "SIMILAR_TEXT", weight |-> neighbor.similarity,
                                       provenance |-> 0]),
                           seenPairs |-> acc.seenPairs \cup {pairKey}]
         IN  similarityNeighbors(acc1, paperId, Tail(neighbors), paperIdMap)

RECURSIVE similarityPapers(_, _, _, _, _, _)
similarityPapers(acc, i, paperIdMap, corpus, topK, threshold) ==
    IF i > Len(paperIdMap) THEN acc
    ELSE similarityPapers(
             similarityNeighbors(acc, paperIdMap[i][2],
                                 findTopKSimilar(paperIdMap[i][1], corpus, topK, threshold),
                                 paperIdMap),
             i + 1, paperIdMap, corpus, topK, threshold)

\* buildSimilarityEdges(paperIdMap, corpus, topK, threshold)
buildSimilarityEdges(paperIdMap, corpus, topK, threshold) ==
    similarityPapers([edges |-> <<>>, seenPairs |-> {}], 1, paperIdMap, corpus, topK, threshold).edges

\* ------------------------------------------------------------------------
\* nlp/tfidf.ts
\* ------------------------------------------------------------------------
\* The terms of the abstract the adapter returns for a source id: paper s
\* mentions the terms s - 1 and s. The title tokens are the same in every paper.
abstractTerms(sourceId) == {t \in Terms : sourceId \in {t, t + 1}}

\* Math.log(N / termDf), in tenths, for the corpus sizes that occur (cosine
\* similarity ignores the scale).
idf(N, termDf) ==
    CASE N = termDf -> 0
      [] N = 2 * termDf -> 7
      [] N = 3 * termDf -> 11
      [] N = 4 * termDf -> 14
      [] N = 5 * termDf -> 16
      [] 2 * N = 3 * termDf -> 4
      [] 2 * N = 5 * termDf -> 9
      [] 3 * N = 4 * termDf -> 3
      [] 3 * N = 5 * termDf -> 5
      [] 4 * N = 5 * termDf -> 2

\* buildCorpus(papers).documents, the documents named by their position in
\* `papers` (source ids are unique among stored papers): every term of a paper
\* occurs once, so its normalised tf is 1 and its weight is the idf; a term that
\* every document has, as the title tokens, weighs log(1) = 0 and is left out.
\* A position past the last paper holds the empty vector.
buildCorpus(allPapers) ==
    LET N == Len(allPapers)
        df(t) == Cardinality({i \in 1..N : t \in abstractTerms(allPapers[i].source_id)})
    IN  [d \in DocIds |->
            [t \in Terms |->
                IF d <= N /\ t \in abstractTerms(allPapers[d].source_id)
                THEN idf(N, df(t)) ELSE 0]]

\* ------------------------------------------------------------------------
\* builder/graph-builder.ts
\* ------------------------------------------------------------------------
NumPapers == 3      \* source ids the adapter knows: 1..NumPapers
MaxSeeds == 2       \* longest answer of searchByTopic
MaxRefs == 2        \* longest answer of fetchReferences (config.maxRefsPerPaper)
MaxMaxPapers == 3   \* config.maxPapers ranges over 1..MaxMaxPapers
MaxDepth == 2       \* config.depth ranges over 0..MaxDepth
MaxBuilds == 2      \* builds run one after the other
MaxClock == 1       \* the clock reads 0..MaxClock

PaperIds == 1..NumPapers
\* The spines of SpecBuild and SpecRebuild; AllSpines adds the two spines with
\* the SIMILAR_TEXT stage of nlp/similarity.ts, built by SpecSpines.
Spines == {"citation", "co-citation", "coupling"}
AllSpines == Spines \cup {"similarity", "hybrid"}
Configs == [source : {"openalex"}, spine : Spines, depth : 0..MaxDepth,
            maxPapers : 1..MaxMaxPapers]
\* config.similarity?.topK ?? 10, config.similarity?.threshold ?? 0.25
DefaultTopK == 10
DefaultThreshold == <<1, 4>>

SeqsUpTo(S, n) == UNION {[1..k -> S] : k \in 0..n}

\* A Paper as an adapter returns it.
adapterPaper(source, sourceId) ==
    [source |-> source, source_id |-> sourceId, title |-> "Original Title",
     citation_count |-> 0, influence_score |-> Null]

paperKey(p) == <<p.source, p.source_id>>

seedLimit(maxPapers) == Max(10, Min((maxPapers * 4) \div 10, 200))

\* Mutant: every result is pushed, seen or not.
addUnique_All(acc, results) == acc \o results

\* results.forEach(addUnique)
RECURSIVE addUnique(_, _)
addUnique(acc, results) ==
    IF results = <<>> THEN acc
    ELSE addUnique(IF paperKey(Head(results)) \in {paperKey(acc[i]) : i \in 1..Len(acc)}
                   THEN acc ELSE Append(acc, Head(results)),
                   Tail(results))

\* The title loop of findSeeds: per title the first result of searchByTitle, if any.
RECURSIVE addTitles(_, _, _)
addTitles(acc, source, titleAnswers) ==
    IF titleAnswers = <<>> THEN acc
    ELSE addTitles(IF Head(titleAnswers) = <<>> THEN acc
                   ELSE addUnique(acc, <<adapterPaper(source, Head(titleAnswers)[1])>>),
                   source, Tail(titleAnswers))

\* The DOI loop of findSeeds: per DOI the paper fetchPaper returns, if not null.
RECURSIVE addDois(_, _, _)
addDois(acc, source, doiAnswers) ==
    IF doiAnswers = <<>> THEN acc
    ELSE addDois(IF Head(doiAnswers) = Null THEN acc
                 ELSE addUnique(acc, <<adapterPaper(source, Head(doiAnswers))>>),
                 source, Tail(doiAnswers))

\* findSeeds(adapter, config): topicAnswer is what searchByTopic answers (empty
\* also when config.topic is not set), titleAnswers what searchByTitle answers
\* per title of config.paper, doiAnswers what fetchPaper answers per DOI of
\* config.doi (Null for null).
findSeedsFrom(source, maxPapers, topicAnswer, titleAnswers, doiAnswers) ==
    LET byTopic == addUnique(<<>>, [i \in 1..Len(topicAnswer) |->
                                       adapterPaper(source, topicAnswer[i])])
        ps == addDois(addTitles(byTopic, source, titleAnswers), source, doiAnswers)
    IN  SubSeq(ps, 1, Min(Len(ps), seedLimit(maxPapers)))

\* findSeeds(adapter, config) with config.topic set and no titles, no DOIs.
findSeeds(cfg, topicAnswer) == findSeedsFrom(cfg.source, cfg.maxPapers, topicAnswer, <<>>, <<>>)

citesEdge(src, dst, depth) ==
    [src_paper_id |-> src, dst_paper_id |-> dst, type |-> "CITES", weight |-> <<1, 1>>,
     provenance |-> depth]

\* Mutant: the quota is not consulted before a new reference is inserted.
hasRoom_Always(st, cfg, atCap) == TRUE

\* !atCapacity && db.getPaperCount() < maxPapers
hasRoom(st, cfg, atCap) == ~atCap /\ getPaperCount(st.papers) < cfg.maxPapers

\* Mutant: a breadth-first step without the stored / visited tests: every
\* reference is inserted (or found) and queued.
traverseRef_NoVisited(st, paper, ref, cfg, atCap, depth) ==
    LET p == insertPapers(st.papers, st.rowid, <<ref>>)
    IN  [st EXCEPT !.papers = p.tbl, !.rowid = p.rowid,
                   !.visited = @ \cup {paperKey(ref)},
                   !.nextFrontier =
                       Append(@, [source_id |-> ref.source_id, paper_id |-> p.ids[1]])]

\* Mutant: the traversal without edgeSeen: an edge is inserted per reference.
traverseRef_NoEdgeSeen(st, paper, ref, cfg, atCap, depth) ==
    LET key == paperKey(ref)
        existing == getPaperBySourceId(st.papers, ref.source, ref.source_id)
    IN  IF existing # Null
        THEN LET r == insertEdges(st.edges, st.papers, st.rowid,
                                  <<citesEdge(paper.paper_id, existing, depth)>>)
             IN  [st EXCEPT !.edges = r.tbl, !.rowid = r.rowid, !.failed = ~r.ok]
        ELSE IF key \notin st.visited /\ hasRoom(st, cfg, atCap)
        THEN LET p == insertPapers(st.papers, st.rowid, <<ref>>)
                 refId == p.ids[1]
                 r == insertEdges(st.edges, p.tbl, p.rowid,
                                  <<citesEdge(paper.paper_id, refId, depth)>>)
             IN  [st EXCEPT !.visited = @ \cup {key}, !.papers = p.tbl, !.edges = r.tbl,
                            !.rowid = r.rowid, !.failed = ~r.ok,
                            !.nextFrontier =
                                Append(@, [source_id |-> ref.source_id, paper_id |-> refId])]
        ELSE [st EXCEPT !.skipped = IF key \notin st.visited THEN @ \cup {key} ELSE @]

\* The body of `for (const ref of refs)`, for one ref.
\* st = [papers, edges, rowid, visited, edgeSeen, nextFrontier, skipped, failed]
traverseRef(st, paper, ref, cfg, atCap, depth) ==
    LET key == paperKey(ref)
        existing == getPaperBySourceId(st.papers, ref.source, ref.source_id)
    IN  IF existing # Null
        THEN LET edgeKey == <<paper.paper_id, existing>>
                 r == insertEdges(st.edges, st.papers, st.rowid,
                                  <<citesEdge(paper.paper_id, existing, depth)>>)
             IN  IF edgeKey \in st.edgeSeen THEN st
                 ELSE [st EXCEPT !.edgeSeen = @ \cup {edgeKey}, !.edges = r.tbl,
                                 !.rowid = r.rowid, !.failed = ~r.ok]
        ELSE IF key \notin st.visited /\ hasRoom(st, cfg, atCap)
        THEN LET p == insertPapers(st.papers, st.rowid, <<ref>>)
                 refId == p.ids[1]
                 edgeKey == <<paper.paper_id, refId>>
                 r == insertEdges(st.edges, p.tbl, p.rowid,
                                  <<citesEdge(paper.paper_id, refId, depth)>>)
                 st1 == [st EXCEPT !.visited = @ \cup {key}, !.papers = p.tbl, !.rowid = p.rowid]
             IN  IF edgeKey \in st.edgeSeen
                 THEN [st1 EXCEPT !.nextFrontier =
                                     Append(@, [source_id |-> ref.source_id, paper_id |-> refId])]
                 ELSE IF ~r.ok
                 THEN [st1 EXCEPT !.edgeSeen = @ \cup {edgeKey}, !.failed = TRUE]
                 ELSE [st1 EXCEPT !.edgeSeen = @ \cup {edgeKey}, !.edges = r.tbl,
                                  !.rowid = r.rowid,
                                  !.nextFrontier =
                                     Append(@, [source_id |-> ref.source_id, paper_id |-> refId])]
        ELSE [st EXCEPT !.skipped = IF key \notin st.visited THEN @ \cup {key} ELSE @]

\* The refs loop inside the try block: an exception ends it, the catch logs it.
RECURSIVE traverseRefs(_, _, _, _, _, _)
traverseRefs(st, paper, refs, cfg, atCap, depth) ==
    IF refs = <<>> \/ st.failed THEN st
    ELSE CHOOSE out \in {traverseRefs(next, paper, Tail(refs), cfg, atCap, depth) :
                            next \in {traverseRef(st, paper, Head(refs), cfg, atCap, depth)}} :
            TRUE

Store == [papers |-> papers, edges |-> edges, clusters |-> clusters,
          paper_clusters |-> paper_clusters, runs |-> runs]

NoLocals ==
    /\ seedPapers' = <<>>
    /\ frontier' = <<>>
    /\ todo' = <<>>
    /\ nextFrontier' = <<>>
    /\ visited' = {}
    /\ edgeSeen' = {}
    /\ dLoop' = 0
    /\ atCapacity' = FALSE
    /\ placed' = placed

TraversalLocals ==
    <<frontier, todo, nextFrontier, visited, edgeSeen, dLoop, atCapacity, placed>>
World == <<config, topicResults, references>>
\* What no step of a fault-free build changes.
Others == <<calls, srcKey, tokens, lastRefill, cpc, wakeAt, taken, httpVars, fnVars, faults,
            atFault>>

\* buildGraph(config) has opened the store and built the adapter.
StartOfBuild ==
    /\ StoreIdle
    /\ BucketIdle
    /\ HttpIdle
    /\ bpc = "findSeeds"
    /\ seedPapers = <<>>
    /\ frontier = <<>>
    /\ todo = <<>>
    /\ nextFrontier = <<>>
    /\ visited = {}
    /\ edgeSeen = {}
    /\ dLoop = 0
    /\ atCapacity = FALSE
    /\ skipped = {}
    /\ closes = 0
    /\ opAfterClose = FALSE
    /\ buildNo = 1
    /\ snap = <<>>
    /\ faults = <<>>
    /\ atFault = <<>>
    /\ placed = <<>>
    /\ FnIdle

\* The adapter has not been asked anything yet.
NothingFetched == references = [p \in PaperIds |-> Unfetched]

InitBuild ==
    StartOfBuild /\ config \in Configs /\ topicResults = Unfetched /\ NothingFetched

\* Step 1: findSeeds; an empty seed set closes the store and returns.
FindSeeds ==
    /\ bpc = "findSeeds"
    /\ \E answer \in IF topicResults = Unfetched THEN SeqsUpTo(PaperIds, MaxSeeds)
                     ELSE {topicResults} :
         /\ topicResults' = answer
         /\ LET seeds == findSeeds(config, answer)
            IN  IF seeds = <<>>
                THEN /\ dbOpen' = close(dbOpen)
                     /\ closes' = closes + 1
                     /\ bpc' = "returned"
                     /\ seedPapers' = <<>>
                ELSE /\ seedPapers' = seeds
                     /\ bpc' = "insertSeeds"
                     /\ UNCHANGED <<dbOpen, closes>>
    /\ UNCHANGED <<papers, edges, clusters, paper_clusters, runs, lastInsertRowid, now,
                   config, references, TraversalLocals, skipped, opAfterClose, buildNo, snap,
                   Others>>

\* db.insertPapers(seedPapers), the ids written back, and the set-up of traverseCitations.
InsertSeeds ==
    /\ bpc = "insertSeeds"
    /\ LET r == insertPapers(papers, lastInsertRowid, seedPapers)
       IN  /\ papers' = r.tbl
           /\ lastInsertRowid' = r.rowid
           /\ frontier' = [i \in 1..Len(seedPapers) |->
                             [source_id |-> seedPapers[i].source_id, paper_id |-> r.ids[i]]]
    /\ visited' = {paperKey(seedPapers[i]) : i \in 1..Len(seedPapers)}
    /\ placed' = [i \in 1..Len(seedPapers) |-> seedPapers[i].source_id]
    /\ edgeSeen' = {}
    /\ dLoop' = 0
    /\ opAfterClose' = (opAfterClose \/ ~dbOpen)
    /\ bpc' = "depth"
    /\ UNCHANGED <<edges, clusters, paper_clusters, runs, dbOpen, now, World, seedPapers, todo,
                   nextFrontier, atCapacity, skipped, closes, buildNo, snap, Others>>

\* The head of the depth loop: d < depth, atCapacity.
StartDepth ==
    /\ bpc = "depth"
    /\ IF dLoop < config.depth
       THEN /\ atCapacity' = (getPaperCount(papers) >= config.maxPapers)
            /\ nextFrontier' = <<>>
            /\ todo' = frontier
            /\ opAfterClose' = (opAfterClose \/ ~dbOpen)
            /\ bpc' = "papers"
       ELSE /\ bpc' = "analytic"
            /\ UNCHANGED <<atCapacity, nextFrontier, todo, opAfterClose>>
    /\ UNCHANGED <<storeVars, now, World, seedPapers, frontier, visited, edgeSeen, dLoop,
                   placed, skipped, closes, buildNo, snap, Others>>

\* The end of one iteration of `for (const paper of frontier)`, the try block
\* having left st; after the last paper of the frontier, the end of the depth
\* iteration.
FinishPaper(st) ==
    /\ papers' = st.papers
    /\ edges' = st.edges
    /\ lastInsertRowid' = st.rowid
    /\ visited' = st.visited
    /\ edgeSeen' = st.edgeSeen
    /\ skipped' = st.skipped
    /\ placed' = placed \o [i \in 1..(Len(st.nextFrontier) - Len(nextFrontier)) |->
                              st.nextFrontier[Len(nextFrontier) + i].source_id]
    /\ todo' = Tail(todo)
    /\ IF Tail(todo) # <<>>
       THEN /\ nextFrontier' = st.nextFrontier
            /\ UNCHANGED <<frontier, dLoop, bpc>>
       ELSE IF st.nextFrontier = <<>>
       THEN /\ nextFrontier' = st.nextFrontier
            /\ bpc' = "analytic"
            /\ UNCHANGED <<frontier, dLoop>>
       ELSE /\ frontier' = st.nextFrontier
            /\ nextFrontier' = st.nextFrontier
            /\ dLoop' = dLoop + 1
            /\ bpc' = "depth"

\* The locals of the traversal on entry to the try block.
EnterPaper ==
    [papers |-> papers, edges |-> edges, rowid |-> lastInsertRowid, visited |-> visited,
     edgeSeen |-> edgeSeen, nextFrontier |-> nextFrontier, skipped |-> skipped,
     failed |-> FALSE]

\* One frontier paper: fetchReferences and the refs loop.
TraversePaper ==
    /\ bpc = "papers"
    /\ todo # <<>>
    /\ LET paper == Head(todo)
       IN  \E refs \in IF references[paper.source_id] = Unfetched
                       THEN SeqsUpTo(PaperIds, MaxRefs)
                       ELSE {references[paper.source_id]} :
             /\ references' = [references EXCEPT ![paper.source_id] = refs]
             /\ opAfterClose' = (opAfterClose \/ (refs # <<>> /\ ~dbOpen))
             /\ \E st \in {traverseRefs(EnterPaper, paper,
                                         [i \in 1..Len(refs) |->
                                             adapterPaper(config.source, refs[i])],
                                         config, atCapacity, dLoop)} :
                  FinishPaper(st)
    /\ UNCHANGED <<clusters, paper_clusters, runs, dbOpen, now, config, topicResults,
                   seedPapers, atCapacity, closes, buildNo, snap, Others>>

\* The catch block of buildGraph: db.close(); throw error.
Catch ==
    /\ dbOpen' = close(dbOpen)
    /\ closes' = closes + 1
    /\ bpc' = "thrown"
    /\ NoLocals

\* Mutant: every stage of analytic edges runs whatever the spine.
spineIncludes_Always(spine, kind) == TRUE

\* spine === kind || spine === 'hybrid'
spineIncludes(spine, kind) == spine = kind \/ spine = "hybrid"

\* Steps 3 to 5: getAllPapers, buildCorpus, and the SIMILAR_TEXT, CO_CITED and
\* BIB_COUPLED edges of the spine, each batch in its own insertEdges call.
AnalyticEdges ==
    /\ bpc = "analytic"
    /\ LET allPapers == papers
           corpus == buildCorpus(allPapers)
           paperIdMap == [i \in 1..Len(allPapers) |-> <<i, i>>]
           simEdges == IF spineIncludes(config.spine, "similarity")
                       THEN buildSimilarityEdges(paperIdMap, corpus, DefaultTopK,
                                                 DefaultThreshold)
                       ELSE <<>>
           r1 == insertEdges(edges, papers, lastInsertRowid, simEdges)
           dbEdges == r1.tbl
           coCiteEdges == IF r1.ok /\ spineIncludes(config.spine, "co-citation")
                          THEN computeCoCitation(dbEdges) ELSE <<>>
           r2 == insertEdges(r1.tbl, papers, r1.rowid, coCiteEdges)
           couplingEdges == IF r1.ok /\ r2.ok /\ spineIncludes(config.spine, "coupling")
                            THEN computeBibCoupling(dbEdges) ELSE <<>>
           r3 == insertEdges(r2.tbl, papers, r2.rowid, couplingEdges)
       IN  /\ edges' = r3.tbl
           /\ lastInsertRowid' = r3.rowid
           /\ opAfterClose' = (opAfterClose \/ ~dbOpen)
           /\ IF r1.ok /\ r2.ok /\ r3.ok
              THEN /\ bpc' = "clusters"
                   /\ NoLocals
                   /\ UNCHANGED <<dbOpen, closes>>
              ELSE Catch
    /\ UNCHANGED <<papers, clusters, paper_clusters, runs, now, World, skipped, buildNo, snap,
                   Others>>

\* Step 6: computeLouvainClusters, buildClusterObjects, db.insertClusters.
InsertClusters ==
    /\ bpc = "clusters"
    /\ opAfterClose' = (opAfterClose \/ ~dbOpen)
    /\ IF louvainThrows(Len(papers), edges)
       THEN /\ Catch
            /\ UNCHANGED <<clusters, paper_clusters, lastInsertRowid>>
       ELSE /\ \E c \in louvainOutcomes(Len(papers), louvainArcs(Len(papers), edges)) :
               \E paperMappings \in {clusterMembers(Len(papers), c)} :
               \E r \in {insertClusters(clusters, paper_clusters, papers, lastInsertRowid,
                              [k \in 1..Len(paperMappings) |->
                                  [method |-> "louvain_citation",
                                   member_count |-> Len(paperMappings[k])]],
                              paperMappings)} :
                     /\ clusters' = r.clusters
                     /\ paper_clusters' = r.paper_clusters
                     /\ lastInsertRowid' = r.rowid
            /\ bpc' = "scores"
            /\ UNCHANGED <<dbOpen, seedPapers, TraversalLocals, closes>>
    /\ UNCHANGED <<papers, edges, runs, now, World, skipped, buildNo, snap, Others>>

\* Step 7: db.updatePaperScore(paperId, pr) for every PageRank score.
UpdateScores ==
    /\ bpc = "scores"
    /\ LET pagerankScores == computePageRank(papers, edges)
       IN  papers' = [i \in 1..Len(papers) |->
                        [papers[i] EXCEPT !.influence_score = pagerankScores[i]]]
    /\ opAfterClose' = (opAfterClose \/ ~dbOpen)
    /\ bpc' = "run"
    /\ UNCHANGED <<edges, clusters, paper_clusters, runs, lastInsertRowid, dbOpen, now, World,
                   seedPapers, TraversalLocals, skipped, closes, buildNo, snap, Others>>

\* Step 8: getStats, insertRun with created_at = new Date(), db.close(), return.
RecordRun ==
    /\ bpc = "run"
    /\ runs' = Append(runs, [created_at |-> now, source |-> config.source,
                             spine |-> config.spine, depth |-> config.depth,
                             stats |-> getStats(papers, edges, clusters, runs)])
    /\ lastInsertRowid' = Len(runs) + 1
    /\ opAfterClose' = (opAfterClose \/ ~dbOpen)
    /\ dbOpen' = close(dbOpen)
    /\ closes' = closes + 1
    /\ bpc' = "returned"
    /\ UNCHANGED <<papers, edges, clusters, paper_clusters, now, World, seedPapers,
                   TraversalLocals, skipped, buildNo, snap, Others>>

\* An operation of the try block throws outside the traversal's own try/catch:
\* the topic search, a store call, an algorithm.
BuildThrows ==
    /\ bpc \in {"findSeeds", "insertSeeds", "depth", "analytic", "clusters", "scores", "run"}
    /\ Catch
    /\ UNCHANGED <<papers, edges, clusters, paper_clusters, runs, lastInsertRowid, now, World,
                   skipped, opAfterClose, buildNo, snap, Others>>

\* The same configuration is built again, into a new store; the adapter answers
\* as before and the clock has moved on.
SecondBuild ==
    /\ bpc = "returned"
    /\ buildNo < MaxBuilds
    /\ snap' = Store
    /\ buildNo' = buildNo + 1
    /\ papers' = <<>>
    /\ edges' = <<>>
    /\ clusters' = <<>>
    /\ paper_clusters' = {}
    /\ runs' = <<>>
    /\ lastInsertRowid' = 0
    /\ dbOpen' = TRUE
    /\ \E t \in now..MaxClock : now' = t
    /\ bpc' = "findSeeds"
    /\ skipped' = {}
    /\ closes' = 0
    /\ opAfterClose' = FALSE
    /\ UNCHANGED <<World, seedPapers, TraversalLocals, Others>>

NextBuild ==
    \/ FindSeeds
    \/ InsertSeeds
    \/ StartDepth
    \/ TraversePaper
    \/ AnalyticEdges
    \/ InsertClusters
    \/ UpdateScores
    \/ RecordRun
    \/ BuildThrows

\* One build, of any configuration.
SpecBuild == InitBuild /\ [][NextBuild]_vars

\* Two builds of one configuration: one level of references, the roomiest quota,
\* each spine.
RebuildConfigs == {c \in Configs : c.depth = 1 /\ c.maxPapers = MaxMaxPapers}

InitRebuild == InitBuild /\ config \in RebuildConfigs

NextRebuild == NextBuild \/ SecondBuild

SpecRebuild == InitRebuild /\ [][NextRebuild]_vars

\* One build of each of the five spines: one level of references, the roomiest
\* quota.
SpineConfigs == [source : {"openalex"}, spine : AllSpines, depth : {1},
                 maxPapers : {MaxMaxPapers}]

InitSpines ==
    StartOfBuild /\ config \in SpineConfigs /\ topicResults = Unfetched /\ NothingFetched

SpecSpines == InitSpines /\ [][NextBuild]_vars

\* ------------------------------------------------------------------------
\* SpecFaulty: a build in which calls inside the traversal's try block throw
\* ------------------------------------------------------------------------
MaxFaults == 1      \* calls that throw during one traversal

StoreCalls == {"insertPapers", "insertEdges"}

\* Mutant: fetchReferences is awaited outside the try block.
traversalCatches_StoreOnly(call) == call \in StoreCalls

\* try { fetchReferences ... insertEdges ... insertPapers ... } catch { logger.warn }:
\* whatever call of the loop body throws, the catch logs it and the frontier
\* loop goes on.
traversalCatches(call) == TRUE

\* The body of `for (const ref of refs)` for a ref at which the bulk insert
\* `call` throws, if the body gets to it.
traverseRefFails(st, paper, ref, cfg, atCap, depth, call) ==
    LET key == paperKey(ref)
        existing == getPaperBySourceId(st.papers, ref.source, ref.source_id)
    IN  IF existing # Null
        THEN LET edgeKey == <<paper.paper_id, existing>>
             IN  IF edgeKey \in st.edgeSeen \/ call # "insertEdges" THEN st
                 ELSE [st EXCEPT !.edgeSeen = @ \cup {edgeKey}, !.failed = TRUE]
        ELSE IF key \notin st.visited /\ hasRoom(st, cfg, atCap)
        THEN IF call = "insertPapers"
             THEN [st EXCEPT !.visited = @ \cup {key}, !.failed = TRUE]
             ELSE LET p == insertPapers(st.papers, st.rowid, <<ref>>)
                      edgeKey == <<paper.paper_id, p.ids[1]>>
                      st1 == [st EXCEPT !.visited = @ \cup {key}, !.papers = p.tbl,
                                        !.rowid = p.rowid]
                  IN  IF edgeKey \in st.edgeSeen THEN st
                      ELSE [st1 EXCEPT !.edgeSeen = @ \cup {edgeKey}, !.failed = TRUE]
        ELSE st

\* adapter.fetchReferences throws for one frontier paper.
FetchFails ==
    /\ bpc = "papers"
    /\ todo # <<>>
    /\ Len(faults) < MaxFaults
    /\ faults' = Append(faults, "fetchReferences")
    /\ atFault' = Store
    /\ IF traversalCatches("fetchReferences")
       THEN /\ \E st \in {EnterPaper} : FinishPaper(st)
            /\ UNCHANGED <<seedPapers, atCapacity, dbOpen, closes>>
       ELSE /\ Catch
            /\ UNCHANGED <<papers, edges, lastInsertRowid, skipped>>
    /\ UNCHANGED <<clusters, paper_clusters, runs, now, World, opAfterClose, buildNo, snap,
                   calls, srcKey, tokens, lastRefill, cpc, wakeAt, taken, httpVars, fnVars>>

\* db.insertPapers or db.insertEdges throws at one reference of one frontier
\* paper, the references before it having been handled.
StoreFails ==
    /\ bpc = "papers"
    /\ todo # <<>>
    /\ Len(faults) < MaxFaults
    /\ LET paper == Head(todo)
       IN  \E refs \in IF references[paper.source_id] = Unfetched
                       THEN SeqsUpTo(PaperIds, MaxRefs)
                       ELSE {references[paper.source_id]} :
           \E k \in 1..Len(refs), call \in StoreCalls :
           \E found \in {[i \in 1..Len(refs) |-> adapterPaper(config.source, refs[i])]} :
           \E before \in {traverseRefs(EnterPaper, paper, SubSeq(found, 1, k - 1), config,
                                        atCapacity, dLoop)} :
           \E st \in {traverseRefFails(before, paper, found[k], config, atCapacity, dLoop,
                                        call)} :
                 /\ st.failed
                 /\ references' = [references EXCEPT ![paper.source_id] = refs]
                 /\ faults' = Append(faults, call)
                 /\ atFault' = [Store EXCEPT !.papers = st.papers, !.edges = st.edges]
                 /\ FinishPaper(st)
    /\ opAfterClose' = (opAfterClose \/ ~dbOpen)
    /\ UNCHANGED <<clusters, paper_clusters, runs, dbOpen, now, config, topicResults,
                   seedPapers, atCapacity, closes, buildNo, snap,
                   calls, srcKey, tokens, lastRefill, cpc, wakeAt, taken, httpVars, fnVars>>

\* Builds of the citation spine with every level of references and the roomiest
\* quota.
FaultyConfigs == {c \in Configs : c.spine = "citation" /\ c.depth = MaxDepth
                                  /\ c.maxPapers = MaxMaxPapers}

\* The topic search finds one seed or two.
FaultySeeds == {<<1>>, <<1, 2>>}

InitFaulty ==
    StartOfBuild /\ config \in FaultyConfigs /\ topicResults \in FaultySeeds /\ NothingFetched

\* Nothing outside the traversal's try block throws.
NextFaulty ==
    \/ FindSeeds
    \/ InsertSeeds
    \/ StartDepth
    \/ TraversePaper
    \/ AnalyticEdges
    \/ InsertClusters
    \/ UpdateScores
    \/ RecordRun
    \/ FetchFails
    \/ StoreFails

SpecFaulty == InitFaulty /\ [][NextFaulty]_vars

\* What fetchReferences answers where it does not throw: per paper a list of
\* other papers, in ascending order.
CitationWorlds ==
    {w \in [PaperIds -> SeqsUpTo(PaperIds, MaxRefs)] :
        \A p \in PaperIds :
            /\ \A i \in 1..Len(w[p]) : w[p][i] # p
            /\ \A i, j \in 1..Len(w[p]) : i < j => w[p][i] < w[p][j]}

\* A build with two seeds in which fetchReferences may throw and nothing else
\* does.
InitFetchFault ==
    /\ StartOfBuild
    /\ config \in FaultyConfigs
    /\ topicResults = <<1, 2>>
    /\ references \in CitationWorlds

NextFetchFault ==
    \/ FindSeeds
    \/ InsertSeeds
    \/ StartDepth
    \/ TraversePaper
    \/ AnalyticEdges
    \/ InsertClusters
    \/ UpdateScores
    \/ RecordRun
    \/ FetchFails

\* Every step of buildGraph that can be taken is taken.
SpecFetchFault == InitFetchFault /\ [][NextFetchFault]_vars /\ WF_vars(NextFetchFault)

\* ------------------------------------------------------------------------
\* SpecSameStore: builds run one after the other into the same store file
\* ------------------------------------------------------------------------
\* buildGraph(config) is called again with the same config.out: new
\* PaperGraphDatabase(config.out) opens the file the build before it wrote.
BuildAgain ==
    /\ bpc = "returned"
    /\ buildNo < MaxBuilds
    /\ buildNo' = buildNo + 1
    /\ dbOpen' = TRUE
    /\ bpc' = "findSeeds"
    /\ skipped' = {}
    /\ closes' = 0
    /\ opAfterClose' = FALSE
    /\ UNCHANGED <<papers, edges, clusters, paper_clusters, runs, lastInsertRowid, now, World,
                   seedPapers, TraversalLocals, snap, Others>>

\* Builds of each spine with one level of references and the roomiest quota.
InitSameStore ==
    StartOfBuild /\ config \in RebuildConfigs /\ topicResults \in FaultySeeds /\ NothingFetched

NextSameStore ==
    \/ FindSeeds
    \/ InsertSeeds
    \/ StartDepth
    \/ TraversePaper
    \/ AnalyticEdges
    \/ InsertClusters
    \/ UpdateScores
    \/ RecordRun
    \/ BuildAgain

SpecSameStore == InitSameStore /\ [][NextSameStore]_vars

\* ------------------------------------------------------------------------
\* SpecBulk: the bulk inserts, with batches that fail part-way
\* ------------------------------------------------------------------------
MaxBulkCalls == 3   \* bulk inserts issued one after the other
MaxBulk == 2        \* rows of one bulk insert
NumBulkIds == 2     \* paper ids and source ids the batches name: 1..NumBulkIds

\* A paper object that lacks the bound parameters after source_id.
Unbindable == [source |-> "openalex", source_id |-> 0]

BulkPapers ==
    {[source |-> "openalex", source_id |-> i, title |-> "Original Title",
      citation_count |-> 0, influence_score |-> Null] : i \in 1..NumBulkIds} \cup {Unbindable}

\* CITES edges from paper 1 to the papers 1..NumBulkIds, stored or not.
BulkEdges == {citesEdge(1, i, 0) : i \in 1..NumBulkIds}

\* Member lists of one cluster: one paper id, or all of them.
BulkMembers == {<<i>> : i \in 1..NumBulkIds} \cup {[i \in 1..NumBulkIds |-> i]}

TablesNow == [papers |-> papers, edges |-> edges, clusters |-> clusters,
              paper_clusters |-> paper_clusters]

\* The call log: which method, its batch, whether it returned, the tables before.
Logged(op, arg, ok) ==
    Append(calls, [op |-> op, arg |-> arg, ok |-> ok, before |-> TablesNow])

BulkInsertPapers ==
    /\ Len(calls) < MaxBulkCalls
    /\ \E batch \in SeqsUpTo(BulkPapers, MaxBulk) \ {<<>>} :
         LET r == insertPapers(papers, lastInsertRowid, batch)
         IN  /\ papers' = r.tbl
             /\ lastInsertRowid' = r.rowid
             /\ calls' = Logged("insertPapers", batch, r.ok)
    /\ UNCHANGED <<edges, clusters, paper_clusters, runs, dbOpen, bucketVars, httpVars,
                   buildVars, fnVars>>

BulkInsertEdges ==
    /\ Len(calls) < MaxBulkCalls
    /\ \E batch \in SeqsUpTo(BulkEdges, MaxBulk) \ {<<>>} :
         LET r == insertEdges(edges, papers, lastInsertRowid, batch)
         IN  /\ edges' = r.tbl
             /\ lastInsertRowid' = r.rowid
             /\ calls' = Logged("insertEdges", batch, r.ok)
    /\ UNCHANGED <<papers, clusters, paper_clusters, runs, dbOpen, bucketVars, httpVars,
                   buildVars, fnVars>>

BulkInsertClusters ==
    /\ Len(calls) < MaxBulkCalls
    /\ \E paperMappings \in SeqsUpTo(BulkMembers, MaxBulk) \ {<<>>} :
         LET batch == [k \in 1..Len(paperMappings) |->
                          [method |-> "louvain_citation",
                           member_count |-> Len(paperMappings[k])]]
             r == insertClusters(clusters, paper_clusters, papers, lastInsertRowid, batch,
                                 paperMappings)
         IN  /\ clusters' = r.clusters
             /\ paper_clusters' = r.paper_clusters
             /\ lastInsertRowid' = r.rowid
             /\ calls' = Logged("insertClusters", paperMappings, r.ok)
    /\ UNCHANGED <<papers, edges, runs, dbOpen, bucketVars, httpVars, buildVars, fnVars>>

NextBulk == BulkInsertPapers \/ BulkInsertEdges \/ BulkInsertClusters

SpecBulk == InitStore /\ [][NextBulk]_vars

\* ------------------------------------------------------------------------
\* SpecSimilarity: buildSimilarityEdges applied to one input
\* ------------------------------------------------------------------------
\* paperIdMap: source id -> paper_id, here source id i -> paper_id i, in any
\* insertion order, for any subset of the documents.
PaperIdMaps ==
    {[i \in 1..Len(s) |-> <<s[i], s[i]>>] :
        s \in {q \in SeqsUpTo(DocIds, NumDocs) : \A i, j \in 1..Len(q) : i # j => q[i] # q[j]}}

NoBuild ==
    /\ StoreIdle
    /\ BucketIdle
    /\ HttpIdle
    /\ BuildIdle

InitSimilarity ==
    /\ NoBuild
    /\ fOp = "none"
    /\ fOut = <<>>
    /\ fIn \in [paperIdMap : PaperIdMaps, corpus : Corpora, topK : 1..MaxTopK,
                threshold : Thresholds]

ApplySimilarity ==
    /\ fOp = "none"
    /\ fOp' = "buildSimilarityEdges"
    /\ fOut' = buildSimilarityEdges(fIn.paperIdMap, fIn.corpus, fIn.topK, fIn.threshold)
    /\ UNCHANGED <<fIn, storeVars, calls, bucketVars, httpVars, buildVars>>

NextSimilarity == ApplySimilarity

SpecSimilarity == InitSimilarity /\ [][NextSimilarity]_vars

\* ------------------------------------------------------------------------
\* SpecAnalytic: computeCoCitation / computeBibCoupling applied to one edge list
\* ------------------------------------------------------------------------
MaxEdgesIn == 3     \* longest list of CITES edges handed to the functions

\* Lists of CITES edges over the paper ids 1..NumPapers, in any order, repeats
\* and self loops included.
CitesLists ==
    {[i \in 1..Len(s) |-> citesEdge(s[i][1], s[i][2], 0)] :
        s \in SeqsUpTo(PaperIds \X PaperIds, MaxEdgesIn)}

InitAnalytic ==
    /\ NoBuild
    /\ fOp = "none"
    /\ fOut = <<>>
    /\ fIn \in CitesLists

ApplyCoCitation ==
    /\ fOp = "none"
    /\ fOp' = "computeCoCitation"
    /\ fOut' = computeCoCitation(fIn)
    /\ UNCHANGED <<fIn, storeVars, calls, bucketVars, httpVars, buildVars>>

ApplyBibCoupling ==
    /\ fOp = "none"
    /\ fOp' = "computeBibCoupling"
    /\ fOut' = computeBibCoupling(fIn)
    /\ UNCHANGED <<fIn, storeVars, calls, bucketVars, httpVars, buildVars>>

NextAnalytic == ApplyCoCitation \/ ApplyBibCoupling

SpecAnalytic == InitAnalytic /\ [][NextAnalytic]_vars

\* ------------------------------------------------------------------------
\* SpecAdapters: one method of OpenAlexAdapter or SemanticScholarAdapter, applied
\* to what the transport answers
\* ------------------------------------------------------------------------
MaxGets == 2        \* httpClient.get calls one adapter method issues
MaxResults == 2     \* works in one response

\* What one httpClient.get does: it throws, or it returns the response's works.
TransportError == [ok |-> FALSE, results |-> <<>>]
Answers == {TransportError} \cup [ok : {TRUE}, results : SeqsUpTo({1}, MaxResults)]

\* How a method ends: it throws, returns null, or returns papers; `raised` tells
\* whether a get it issued threw.
Returned(works, raised) == [threw |-> FALSE, null |-> FALSE, papers |-> works, raised |-> raised]
ReturnedNull == [threw |-> FALSE, null |-> TRUE, papers |-> <<>>, raised |-> TRUE]
Thrown == [threw |-> TRUE, null |-> FALSE, papers |-> <<>>, raised |-> TRUE]

\* OpenAlexAdapter.searchByTopic: no try block.
OpenAlex_searchByTopic(gets) ==
    IF ~gets[1].ok THEN Thrown ELSE Returned(gets[1].results, FALSE)

\* OpenAlexAdapter.searchByTitle: the exact search, then the fallback search when
\* the exact one found nothing; no try block.
OpenAlex_searchByTitle(gets) ==
    IF ~gets[1].ok THEN Thrown
    ELSE IF Len(gets[1].results) > 0 THEN Returned(gets[1].results, FALSE)
    ELSE IF ~gets[2].ok THEN Thrown
    ELSE Returned(gets[2].results, FALSE)

\* OpenAlexAdapter.fetchPaper: try { get } catch { return null }
OpenAlex_fetchPaper(gets) ==
    IF ~gets[1].ok THEN ReturnedNull ELSE Returned(gets[1].results, FALSE)

\* OpenAlexAdapter.fetchFullWork: try { get } catch { return null }; the work's
\* referenced_works are what the response lists.
fetchFullWork(get) ==
    IF ~get.ok THEN [null |-> TRUE, referenced_works |-> <<>>]
    ELSE [null |-> FALSE, referenced_works |-> get.results]

\* OpenAlexAdapter.fetchWorksByIds for at most batchSize ids: one batch, whose
\* failure is logged and skipped.
fetchWorksByIds(ids, get) ==
    IF Len(ids) = 0 THEN Returned(<<>>, FALSE)
    ELSE IF ~get.ok THEN Returned(<<>>, TRUE)
    ELSE Returned(get.results, FALSE)

\* OpenAlexAdapter.fetchReferences
OpenAlex_fetchReferences(gets) ==
    LET paper == fetchFullWork(gets[1])
    IN  IF paper.null THEN Returned(<<>>, TRUE)
        ELSE IF Len(paper.referenced_works) = 0 THEN Returned(<<>>, FALSE)
        ELSE fetchWorksByIds(paper.referenced_works, gets[2])

\* OpenAlexAdapter.fetchCitations: no try block.
OpenAlex_fetchCitations(gets) ==
    IF ~gets[1].ok THEN Thrown ELSE Returned(gets[1].results, FALSE)

\* SemanticScholarAdapter.searchByTopic, searchByTitle: no try block.
S2_searchByTopic(gets) ==
    IF ~gets[1].ok THEN Thrown ELSE Returned(gets[1].results, FALSE)

S2_searchByTitle(gets) ==
    IF ~gets[1].ok THEN Thrown ELSE Returned(gets[1].results, FALSE)

\* SemanticScholarAdapter.fetchPaper: try { get } catch { return null }
S2_fetchPaper(gets) ==
    IF ~gets[1].ok THEN ReturnedNull ELSE Returned(gets[1].results, FALSE)

\* SemanticScholarAdapter.fetchReferences, fetchCitations: try { get } catch { return [] }
S2_fetchReferences(gets) ==
    IF ~gets[1].ok THEN Returned(<<>>, TRUE) ELSE Returned(gets[1].results, FALSE)

S2_fetchCitations(gets) ==
    IF ~gets[1].ok THEN Returned(<<>>, TRUE) ELSE Returned(gets[1].results, FALSE)

Adapters == {"openalex", "s2"}

InitAdapters ==
    /\ NoBuild
    /\ fOp = "none"
    /\ fOut = <<>>
    /\ fIn \in [adapter : Adapters, gets : [1..MaxGets -> Answers]]

SearchByTopic ==
    /\ fOp = "none"
    /\ fOp' = "searchByTopic"
    /\ fOut' = IF fIn.adapter = "openalex" THEN OpenAlex_searchByTopic(fIn.gets)
               ELSE S2_searchByTopic(fIn.gets)
    /\ UNCHANGED <<fIn, storeVars, calls, bucketVars, httpVars, buildVars>>

SearchByTitle ==
    /\ fOp = "none"
    /\ fOp' = "searchByTitle"
    /\ fOut' = IF fIn.adapter = "openalex" THEN OpenAlex_searchByTitle(fIn.gets)
               ELSE S2_searchByTitle(fIn.gets)
    /\ UNCHANGED <<fIn, storeVars, calls, bucketVars, httpVars, buildVars>>

FetchPaper ==
    /\ fOp = "none"
    /\ fOp' = "fetchPaper"
    /\ fOut' = IF fIn.adapter = "openalex" THEN OpenAlex_fetchPaper(fIn.gets)
               ELSE S2_fetchPaper(fIn.gets)
    /\ UNCHANGED <<fIn, storeVars, calls, bucketVars, httpVars, buildVars>>

FetchReferences ==
    /\ fOp = "none"
    /\ fOp' = "fetchReferences"
    /\ fOut' = IF fIn.adapter = "openalex" THEN OpenAlex_fetchReferences(fIn.gets)
               ELSE S2_fetchReferences(fIn.gets)
    /\ UNCHANGED <<fIn, storeVars, calls, bucketVars, httpVars, buildVars>>

FetchCitations ==
    /\ fOp = "none"
    /\ fOp' = "fetchCitations"
    /\ fOut' = IF fIn.adapter = "openalex" THEN OpenAlex_fetchCitations(fIn.gets)
               ELSE S2_fetchCitations(fIn.gets)
    /\ UNCHANGED <<fIn, storeVars, calls, bucketVars, httpVars, buildVars>>

NextAdapters ==
    \/ SearchByTopic
    \/ SearchByTitle
    \/ FetchPaper
    \/ FetchReferences
    \/ FetchCitations

SpecAdapters == InitAdapters /\ [][NextAdapters]_vars

\* ------------------------------------------------------------------------
\* graph/scoring.ts and computeRelevance of nlp/tfidf.ts
\* ------------------------------------------------------------------------
MaxScored == 2          \* papers handed to computeCompositeScores
MinYear == 1900         \* the years the oldestYear filter keeps are above it
WeightScale == 10       \* ranking weights and TF-IDF weights in tenths
MinMaxPagerank == 1     \* the floor 0.001 of maxPagerank, in 1/1000

\* Numbers as fractions num/den with den > 0, or one of the two non-finite
\* values the arithmetic yields.
Number(num, den) == [kind |-> "number", num |-> num, den |-> den]
MinusInfinity == [kind |-> "-Infinity", num |-> 0, den |-> 1]
NaN == [kind |-> "NaN", num |-> 0, den |-> 1]

\* computeRelevance(corpus, docId, queryTokens): Math.min(1.0, score / length),
\* score the sum of the document's weights of the tokens; docVector is the
\* document's vector term -> weight in tenths, empty when the corpus has none.
computeRelevance(docVector, queryTokens) ==
    IF docVector = <<>> \/ queryTokens = <<>> THEN Number(0, 1)
    ELSE LET score == Sum([i \in 1..Len(queryTokens) |->
                              IF queryTokens[i] \in DOMAIN docVector
                              THEN docVector[queryTokens[i]] ELSE 0],
                          1..Len(queryTokens))
             den == WeightScale * Len(queryTokens)
         IN  Number(Min(score, den), den)

\* Math.min(...years) over the years above 1900, null read as the current year;
\* Math.min() of nothing is Infinity, written Null here.
oldestYear(years, currentYear) ==
    LET kept == {y \in {Coalesce(years[i], currentYear) : i \in 1..Len(years)} : y > MinYear}
    IN  IF kept = {} THEN Null ELSE CHOOSE y \in kept : \A z \in kept : y <= z

\* recency = (paperYear - oldestYear) / yearRange, yearRange =
\* Math.max(1, currentYear - oldestYear); with oldestYear = Infinity the range is
\* 1 and the recency is -Infinity.
recencyOf(year, oldest, currentYear) ==
    IF oldest = Null THEN MinusInfinity
    ELSE Number(Coalesce(year, currentYear) - oldest, Max(1, currentYear - oldest))

\* computeCompositeScores(papers, pagerankScores, corpus, topic, weights): per
\* paper Math.min(1.0, pr * w1 + relevance * w2 + recency * w3). years and
\* pagerank hold the papers' year and PageRank score (in 1/1000, Null for a
\* paper the map does not hold), vectors their documents, w the weights in tenths.
computeCompositeScores(years, pagerank, vectors, queryTokens, w, currentYear) ==
    LET scores == {Coalesce(pagerank[i], 0) : i \in 1..Len(years)}
        maxPagerank == Max(MinMaxPagerank, CHOOSE s \in scores : \A z \in scores : s >= z)
        oldest == oldestYear(years, currentYear)
    IN  [i \in 1..Len(years) |->
            LET pr == Number(Coalesce(pagerank[i], 0), maxPagerank)
                relevance == computeRelevance(vectors[i], queryTokens)
                recency == recencyOf(years[i], oldest, currentYear)
                den == WeightScale * pr.den * relevance.den * recency.den
                composite == pr.num * w.pagerankWeight * relevance.den * recency.den
                             + relevance.num * w.relevanceWeight * pr.den * recency.den
                             + recency.num * w.recencyWeight * pr.den * relevance.den
            IN  IF recency.kind = "-Infinity"
                THEN IF w.recencyWeight = 0 THEN NaN ELSE MinusInfinity
                ELSE Number(Min(den, composite), den)]

\* ------------------------------------------------------------------------
\* SpecScoring: computeCompositeScores applied to every small input
\* ------------------------------------------------------------------------
ScoredYears == {Null, 1850, 1901, 2016, 2030}
CurrentYears == {2026}
PageRanks == {Null, 0, 500}
ScoredVectors == {<<>>} \cup [Terms -> {0, 16}]
QueryTokens == {<<>>, <<1>>, <<1, 2>>}
\* Non-negative weights that sum to 1, the defaults among them.
ScoringWeights ==
    {[pagerankWeight |-> 5, relevanceWeight |-> 3, recencyWeight |-> 2],
     [pagerankWeight |-> 0, relevanceWeight |-> 0, recencyWeight |-> 10],
     [pagerankWeight |-> 10, relevanceWeight |-> 0, recencyWeight |-> 0]}

InitScoring ==
    /\ NoBuild
    /\ fOp = "none"
    /\ fOut = <<>>
    /\ \E n \in 1..MaxScored :
         fIn \in [years : [1..n -> ScoredYears], pagerank : [1..n -> PageRanks],
                  vectors : [1..n -> ScoredVectors], queryTokens : QueryTokens,
                  weights : ScoringWeights, currentYear : CurrentYears]

ApplyScoring ==
    /\ fOp = "none"
    /\ fOp' = "computeCompositeScores"
    /\ fOut' = computeCompositeScores(fIn.years, fIn.pagerank, fIn.vectors, fIn.queryTokens,
                                      fIn.weights, fIn.currentYear)
    /\ UNCHANGED <<fIn, storeVars, calls, bucketVars, httpVars, buildVars>>

NextScoring == ApplyScoring

SpecScoring == InitScoring /\ [][NextScoring]_vars

\* ------------------------------------------------------------------------
\* SpecSeeds: findSeeds applied to topic, title and DOI answers
\* ------------------------------------------------------------------------
MaxTitles == 2          \* titles of config.paper
MaxDois == 2            \* DOIs of config.doi
LongAnswer == 12        \* papers of the longest topic answer

SeedTopicAnswers == {<<>>, <<1>>, <<2, 1, 2>>} \cup {[i \in 1..n |-> i] : n \in {10, LongAnswer}}
SeedTitleAnswers == SeqsUpTo({<<>>, <<1>>, <<11, 1>>, <<13>>}, MaxTitles)
SeedDoiAnswers == SeqsUpTo({Null, 2, 12, 14}, MaxDois)
SeedMaxPapers == {1, 25, 30, 600}

InitSeeds ==
    /\ NoBuild
    /\ fOp = "none"
    /\ fOut = <<>>
    /\ fIn \in [maxPapers : SeedMaxPapers, topicAnswer : SeedTopicAnswers,
                titleAnswers : SeedTitleAnswers, doiAnswers : SeedDoiAnswers]

ApplyFindSeeds ==
    /\ fOp = "none"
    /\ fOp' = "findSeeds"
    /\ fOut' = findSeedsFrom("openalex", fIn.maxPapers, fIn.topicAnswer, fIn.titleAnswers,
                             fIn.doiAnswers)
    /\ UNCHANGED <<fIn, storeVars, calls, bucketVars, httpVars, buildVars>>

NextSeeds == ApplyFindSeeds

SpecSeeds == InitSeeds /\ [][NextSeeds]_vars

\* ------------------------------------------------------------------------
\* cache/response-cache.ts: ResponseCache
\* ------------------------------------------------------------------------
MaxCacheTicks == 3      \* SpecCache: the clock stops after MaxCacheTicks steps
CacheTickMs == TtlMs \div 2
Payloads == {"body-a", "body-b"}

\* makeKey(url): the SHA-256 hex digest of the URL; the URLs of the model have
\* distinct digests, written here as the URL behind a prefix.
makeKey(url) == <<"sha256", url>>

\* Mutant: an entry whose age equals the TTL is expired.
cacheGet_ExpiresAtTtl(enabled, files, url, t) ==
    IF ~enabled THEN [hit |-> FALSE, data |-> ""]
    ELSE IF makeKey(url) \notin DOMAIN files THEN [hit |-> FALSE, data |-> ""]
    ELSE IF t - files[makeKey(url)].timestamp >= TtlMs THEN [hit |-> FALSE, data |-> ""]
    ELSE [hit |-> TRUE, data |-> files[makeKey(url)].data]

\* get(url) at time t.
cacheGet(enabled, files, url, t) ==
    IF ~enabled THEN [hit |-> FALSE, data |-> ""]
    ELSE IF makeKey(url) \notin DOMAIN files THEN [hit |-> FALSE, data |-> ""]
    ELSE IF t - files[makeKey(url)].timestamp > TtlMs THEN [hit |-> FALSE, data |-> ""]
    ELSE [hit |-> TRUE, data |-> files[makeKey(url)].data]

\* set(url, data) at time t: the files afterwards.
cacheSet(enabled, files, url, data, t) ==
    IF ~enabled THEN files
    ELSE [k \in DOMAIN files \cup {makeKey(url)} |->
             IF k = makeKey(url) THEN [timestamp |-> t, url |-> url, data |-> data]
             ELSE files[k]]

\* has(url) at time t.
cacheHas(enabled, files, url, t) == cacheGet(enabled, files, url, t).hit

\* fIn holds the constructor's `enabled` and, per URL, the latest set() call
\* (time and payload) if any; fOut holds the last call and what it returned.
InitCache ==
    /\ StoreIdle
    /\ BucketIdle
    /\ HttpIdle
    /\ BuildIdle
    /\ fOp = "none"
    /\ fIn \in [enabled : BOOLEAN, sets : {[u \in Urls |-> <<>>]}]
    /\ fOut = <<>>

CacheRest == <<srcKey, tokens, lastRefill, cpc, wakeAt, taken, storeVars, calls, buildVars,
               hpc, req, attempt, pendingSleep, nfetch, lastOutcome, retriedOnly, nsleeps,
               lastSleep, result, requestCounts, nreq, succeeded, fresh>>

CacheSetCall(u, d) ==
    /\ cacheFiles' = cacheSet(fIn.enabled, cacheFiles, u, d, now)
    /\ fOp' = "set"
    /\ fIn' = [fIn EXCEPT !.sets[u] = <<[at |-> now, payload |-> d]>>]
    /\ fOut' = [url |-> u, at |-> now]
    /\ UNCHANGED <<now, CacheRest>>

CacheGetCall(u) ==
    /\ fOp' = "get"
    /\ fOut' = [url |-> u, at |-> now, ret |-> cacheGet(fIn.enabled, cacheFiles, u, now)]
    /\ UNCHANGED <<now, cacheFiles, fIn, CacheRest>>

CacheHasCall(u) ==
    /\ fOp' = "has"
    /\ fOut' = [url |-> u, at |-> now, ret |-> cacheHas(fIn.enabled, cacheFiles, u, now)]
    /\ UNCHANGED <<now, cacheFiles, fIn, CacheRest>>

CacheTick ==
    /\ now < MaxCacheTicks * CacheTickMs
    /\ now' = now + CacheTickMs
    /\ UNCHANGED <<cacheFiles, fnVars, CacheRest>>

NextCache ==
    \/ \E u \in Urls : (\E d \in Payloads : CacheSetCall(u, d)) \/ CacheGetCall(u) \/ CacheHasCall(u)
    \/ CacheTick

SpecCache == InitCache /\ [][NextCache]_vars

\* ------------------------------------------------------------------------
\* nlp/tfidf.ts: buildCorpus over token lists, getTopTerms, and the cluster
\* names of buildGraph step 6
\* ------------------------------------------------------------------------
MaxTokens == 3          \* tokens of the longest document
MaxCorpus == 2          \* papers given to buildCorpus
MaxTopN == 3            \* topN ranges over 0..MaxTopN (buildGraph asks for 3)

RECURSIVE Factorial(_)
Factorial(n) == IF n <= 1 THEN 1 ELSE n * Factorial(n - 1)
\* count / maxTf is kept as an integer: weights are in units of 1 / (10 * TfScale).
TfScale == Factorial(MaxTokens)

\* The keys of the `tf` Map of one document, in insertion order.
tfTerms(toks) == Dedup(toks)
tfCount(toks, term) == Cardinality({i \in 1..Len(toks) : toks[i] = term})
maxTf(toks) == CHOOSE c \in 1..Len(toks) :
                     /\ \E t \in Range(toks) : tfCount(toks, t) = c
                     /\ \A t \in Range(toks) : tfCount(toks, t) <= c

\* buildCorpus(papers).documents, for papers given by the tokens of their text
\* and named by their position: a paper without tokens is skipped; every other
\* one maps to its entries [term, weight] in insertion order, the weight being
\* (count / maxTf) * Math.log(N / df).
buildCorpusFromTokens(tokenLists) ==
    LET kept == {d \in 1..Len(tokenLists) : tokenLists[d] # <<>>}
        N == Cardinality(kept)
        df(t) == Cardinality({d \in kept : t \in Range(tokenLists[d])})
    IN  [d \in kept |->
            [i \in 1..Len(tfTerms(tokenLists[d])) |->
                LET term == tfTerms(tokenLists[d])[i]
                IN  [term |-> term,
                     weight |-> ((tfCount(tokenLists[d], term) * TfScale)
                                     \div maxTf(tokenLists[d])) * idf(N, df(term))]]]

\* The entries of every vector of docIds, one after the other; a document the
\* corpus does not have is passed over.
RECURSIVE vectorEntries(_, _)
vectorEntries(documents, docIds) ==
    IF docIds = <<>> THEN <<>>
    ELSE (IF Head(docIds) \in DOMAIN documents THEN documents[Head(docIds)] ELSE <<>>)
             \o vectorEntries(documents, Tail(docIds))

\* Array.sort((a, b) => b[1] - a[1]): descending by score, stable.
sortByScoreDesc(es) ==
    LET before(i, j) == es[i].weight > es[j].weight \/ (es[i].weight = es[j].weight /\ i < j)
        rank(i) == Cardinality({j \in 1..Len(es) : before(j, i)})
    IN  [r \in 1..Len(es) |-> es[CHOOSE i \in 1..Len(es) : rank(i) = r - 1]]

\* Mutant: terms whose summed weight is 0 are left out.
getTopTerms_PositiveOnly(documents, docIds, topN) ==
    LET es == vectorEntries(documents, docIds)
        terms == Dedup([i \in 1..Len(es) |-> es[i].term])
        termScores == [i \in 1..Len(terms) |->
                          [term |-> terms[i],
                           weight |-> Sum([j \in 1..Len(es) |->
                                              IF es[j].term = terms[i] THEN es[j].weight ELSE 0],
                                          1..Len(es))]]
        sorted == sortByScoreDesc(SelectSeq(termScores, LAMBDA e : e.weight > 0))
    IN  [i \in 1..Min(topN, Len(sorted)) |-> sorted[i].term]

\* getTopTerms(corpus, docIds, topN)
getTopTerms(documents, docIds, topN) ==
    LET es == vectorEntries(documents, docIds)
        terms == Dedup([i \in 1..Len(es) |-> es[i].term])
        termScores == [i \in 1..Len(terms) |->
                          [term |-> terms[i],
                           weight |-> Sum([j \in 1..Len(es) |->
                                              IF es[j].term = terms[i] THEN es[j].weight ELSE 0],
                                          1..Len(es))]]
        sorted == sortByScoreDesc(termScores)
    IN  [i \in 1..Min(topN, Len(sorted)) |-> sorted[i].term]

\* top.join(', ') || `Cluster ${communityId}`: tokens are not empty, so the
\* joined string is empty only for an empty list.
clusterName(top, communityId) ==
    IF top = <<>> THEN [kind |-> "fallback", id |-> communityId, terms |-> <<>>]
    ELSE [kind |-> "terms", id |-> communityId, terms |-> top]

TokenLists == SeqsUpTo(Terms, MaxTokens)

InitTopTerms ==
    /\ NoBuild
    /\ fOp = "none"
    /\ fOut = <<>>
    /\ fIn \in [tokenLists : UNION {[1..n -> TokenLists] : n \in 1..MaxCorpus},
                docIds : {<<1>>, <<2>>, <<1, 2>>},
                topN : 0..MaxTopN]

\* One cluster of buildGraph step 6, community 0, asked for topN terms.
ApplyTopTerms ==
    /\ fOp = "none"
    /\ fOp' = "getTopTerms"
    /\ \E documents \in {buildCorpusFromTokens(fIn.tokenLists)} :
         \E top \in {getTopTerms(documents, fIn.docIds, fIn.topN)} :
            fOut' = [documents |-> documents, top |-> top, name |-> clusterName(top, 0)]
    /\ UNCHANGED <<fIn, storeVars, calls, bucketVars, httpVars, buildVars>>

NextTopTerms == ApplyTopTerms

SpecTopTerms == InitTopTerms /\ [][NextTopTerms]_vars

\* ------------------------------------------------------------------------
\* Claims about the build
\* ------------------------------------------------------------------------
Exited == bpc \in {"returned", "thrown"}

\* C1: when buildGraph completes on a store that was empty at the start, the
\* number of persisted papers is at most config.maxPapers, for every
\* maxPapers >= 1.
C1_PaperCountWithinMax ==
    bpc = "returned" => getPaperCount(papers) <= config.maxPapers

C2_EndpointsStored ==
    \A i \in 1..Len(edges) :
        /\ edges[i].src_paper_id \in 1..Len(papers)
        /\ edges[i].dst_paper_id \in 1..Len(papers)

C2_SkippedNotStored ==
    \A k \in skipped : getPaperBySourceId(papers, k[1], k[2]) = Null

C2_InsertedBelowQuota ==
    (bpc = "papers" /\ Len(papers') > Len(papers)) => Len(papers') <= config.maxPapers

\* C2: the traversal inserts a referenced paper that is not yet stored only
\* while the paper count is below maxPapers; a reference skipped for lack of
\* room is not stored, so no edge leads to it; in every state of a build both
\* endpoints of every persisted edge are ids of stored papers.
C2_CapacitySkip ==
    [](C2_EndpointsStored /\ C2_SkippedNotStored) /\ [][C2_InsertedBelowQuota]_vars

\* C2 witness: a build that filled its quota during the traversal, skipped a
\* reference for lack of room and persisted edges.
C2_Witness ==
    /\ bpc = "returned"
    /\ skipped # {}
    /\ Len(edges) > 0
    /\ Len(papers) = config.maxPapers
    /\ Len(papers) > Len(topicResults)

\* C3: on every exit path of buildGraph (success, empty seed set, error at any
\* stage) the store has been closed, once, when buildGraph returns or rethrows;
\* it is open until then and no store operation is issued after the close.
C3_StoreClosedOnExit ==
    /\ Exited => (~dbOpen /\ closes = 1)
    /\ ~Exited => (dbOpen /\ closes = 0)
    /\ ~opAfterClose

\* C3 witness: an error thrown after papers and edges were persisted; the store is closed.
C3_Witness ==
    /\ bpc = "thrown"
    /\ Len(papers) > 0
    /\ Len(edges) > 0
    /\ ~dbOpen
    /\ closes = 1

\* C4: two builds on empty stores with the same adapter answers and the same
\* configuration persist the same paper rows, edge rows, cluster rows, cluster
\* membership, influence scores and run row.
C4_RebuildIdentical ==
    (buildNo = 2 /\ bpc = "returned") => Store = snap

\* ------------------------------------------------------------------------
\* Claims about the store
\* ------------------------------------------------------------------------
KeyOf(p) == <<p.source, p.source_id>>
KeysOf(s) == {KeyOf(s[i]) : i \in 1..Len(s)}
RowsWithKey(tbl, k) == {i \in 1..Len(tbl) : KeyOf(tbl[i]) = k}
LastCall == calls[Len(calls)]

\* C5: after any sequence of insertPapers and upsertPaper calls no two rows of
\* papers share (source, source_id), and a call adds exactly one row per key
\* that was not stored before it: a paper whose key is already stored (or that
\* repeats a key of its batch) leaves the paper count unchanged.
C5_UniqueSourceKey ==
    /\ \A i, j \in 1..Len(papers) : KeyOf(papers[i]) = KeyOf(papers[j]) => i = j
    /\ calls # <<>> =>
          Len(papers) = Len(LastCall.before)
                        + Cardinality(KeysOf(LastCall.arg) \ KeysOf(LastCall.before))

\* C5 witness: a batch that repeats a key which is already stored has been inserted.
C5_Witness ==
    /\ calls # <<>>
    /\ LastCall.op = "insertPapers"
    /\ Len(LastCall.arg) = 2
    /\ KeyOf(LastCall.arg[1]) = KeyOf(LastCall.arg[2])
    /\ KeyOf(LastCall.arg[1]) \in KeysOf(LastCall.before)
    /\ Len(papers) = Len(LastCall.before)

\* Two consecutive upsertPaper calls a, b with the same key, the key not stored
\* before the first of them.
TwoUpserts ==
    /\ Len(calls) >= 2
    /\ LastCall.op = "upsertPaper"
    /\ calls[Len(calls) - 1].op = "upsertPaper"
    /\ KeyOf(LastCall.arg[1]) = KeyOf(calls[Len(calls) - 1].arg[1])
    /\ KeyOf(LastCall.arg[1]) \notin KeysOf(calls[Len(calls) - 1].before)

\* C6: upserting two records with the same key in sequence yields exactly one
\* row with that key; its citation_count is the maximum of the two counts and
\* its title the later record's; when the two records are identical the second
\* upsert leaves the table unchanged.
C6_UpsertMerge ==
    TwoUpserts =>
        LET a == calls[Len(calls) - 1].arg[1]
            b == LastCall.arg[1]
            rows == RowsWithKey(papers, KeyOf(b))
        IN  /\ Cardinality(rows) = 1
            /\ \A i \in rows :
                  /\ papers[i].citation_count = Max(a.citation_count, b.citation_count)
                  /\ papers[i].title = b.title
            /\ a = b => papers = LastCall.before

\* C6 witness: the second record has the smaller citation count and another title.
C6_Witness ==
    /\ TwoUpserts
    /\ LastCall.arg[1].citation_count < calls[Len(calls) - 1].arg[1].citation_count
    /\ LastCall.arg[1].title # calls[Len(calls) - 1].arg[1].title

\* ------------------------------------------------------------------------
\* Claims about the token bucket
\* ------------------------------------------------------------------------
\* Smallest gap in ms between two releases of callers that had to wait
MinGapMs(src) == OneToken \div RATE_LIMITS[src].tokensPerSecond

\* C9: for every interleaving of concurrent acquisitions on one source key,
\* each call that proceeds has taken one whole token from a balance of at least
\* one token; the balance is never negative and never above the capacity; and
\* callers that had to wait are released at least 1/r seconds apart.
C9_BucketNeverOverdrawn ==
    /\ tokens >= 0
    /\ tokens <= RATE_LIMITS[srcKey].maxBurst * OneToken
    /\ \A i \in 1..Len(taken) : taken[i].found >= OneToken
    /\ \A i, j \in 1..Len(taken) :
          (i < j /\ taken[i].waited /\ taken[j].waited)
              => taken[j].at - taken[i].at >= MinGapMs(srcKey)

\* ------------------------------------------------------------------------
\* Claims about the transport
\* ------------------------------------------------------------------------
Running == hpc \in {"acquireWait", "fetch", "backoff"}
Settled == hpc \in {"returned", "thrown"}

C7_Safe ==
    /\ nfetch <= maxRetries + 1
    /\ retriedOnly
    /\ (nfetch >= 1 /\ lastOutcome.kind = "status" /\ ~ResponseOk(lastOutcome)
            /\ lastOutcome.status \notin {429, 500, 502, 503, 504})
          => (hpc = "thrown" /\ result.kind = "HttpError" /\ result.status = lastOutcome.status)
    /\ (nfetch = maxRetries + 1 /\ ~ResponseOk(lastOutcome))
          => (hpc = "thrown" /\ result.kind = "HttpError")
    /\ hpc = "returned" => (result.kind = "response" /\ ResponseOk(lastOutcome))
    /\ hpc = "thrown" => (result.kind = "HttpError" /\ ~ResponseOk(lastOutcome))

\* C7: one request makes at most 4 outbound attempts and always ends with a
\* response or an error; an attempt is followed by another only after a
\* retryable status or a connection / reset / timeout error; any other error
\* status is raised by the attempt that met it; a failure of the 4th attempt is
\* raised.
C7_BoundedRetries == [](C7_Safe) /\ [](Running => <>Settled)

\* C7 witness: the 4th attempt failed with a retryable status and the error was raised.
C7_Witness ==
    /\ nfetch = maxRetries + 1
    /\ nsleeps = maxRetries
    /\ lastOutcome.kind = "status" /\ lastOutcome.status = 429
    /\ hpc = "thrown"

IsRetryAfterSeconds(o) ==
    o.kind = "status" /\ o.status = 429 /\ o.retryAfter.form = "seconds"

C10_RepeatServedFromCache ==
    /\ \A u \in DOMAIN succeeded : succeeded[u] # Null => u \in DOMAIN cacheFiles
    /\ fresh => nfetch = 0

\* ------------------------------------------------------------------------
\* Claims about the build: seeds, edges, errors
\* ------------------------------------------------------------------------
EmptySeedReturn ==
    /\ bpc = "returned"
    /\ topicResults # Unfetched
    /\ findSeeds(config, topicResults) = <<>>

\* C11: when the final seed set is empty, buildGraph records exactly one run row
\* whose stats show zero counts, does no traversal and no post-processing, and
\* returns.
C11_EmptySeedsRecordRun ==
    EmptySeedReturn =>
        /\ Len(runs) = 1
        /\ runs[1].stats.papers = 0
        /\ runs[1].stats.edges = 0
        /\ runs[1].stats.clusters = 0
        /\ papers = <<>> /\ edges = <<>> /\ clusters = <<>>

\* C12: every CITES edge the traversal persists joins two different papers.
C12_NoSelfCitation ==
    \A i \in 1..Len(edges) :
        edges[i].type = "CITES" => edges[i].src_paper_id # edges[i].dst_paper_id

\* ------------------------------------------------------------------------
\* Claims about the similarity and analytic edges
\* ------------------------------------------------------------------------
UnorderedPair(e) == {e.src_paper_id, e.dst_paper_id}

OnePerPair(es) ==
    \A i, j \in 1..Len(es) : i # j => UnorderedPair(es[i]) # UnorderedPair(es[j])

SrcBelowDst(es) ==
    \A i \in 1..Len(es) : es[i].src_paper_id < es[i].dst_paper_id

\* C13: buildSimilarityEdges emits at most one SIMILAR_TEXT edge per unordered
\* pair of papers, and every emitted edge has src_paper_id < dst_paper_id.
C13_SimilarityPairsOrdered ==
    fOp = "buildSimilarityEdges" => (OnePerPair(fOut) /\ SrcBelowDst(fOut))

\* C14: every edge returned by computeCoCitation and by computeBibCoupling has
\* src_paper_id < dst_paper_id, and each function returns at most one edge per
\* unordered pair, for every list of CITES edges in any order.
C14_AnalyticPairsOrdered ==
    fOp \in {"computeCoCitation", "computeBibCoupling"} =>
        (OnePerPair(fOut) /\ SrcBelowDst(fOut))


\* ------------------------------------------------------------------------
\* Claims about the spines
\* ------------------------------------------------------------------------
EdgeTypes == {edges[i].type : i \in 1..Len(edges)}

\* C15: in a build on an initially empty store, SIMILAR_TEXT edges are stored
\* only if the spine is similarity or hybrid, CO_CITED edges only if it is
\* co-citation or hybrid, BIB_COUPLED edges only if it is coupling or hybrid;
\* with the citation spine the store holds only CITES edges.
C15_EdgeTypesFollowSpine ==
    /\ "SIMILAR_TEXT" \in EdgeTypes => config.spine \in {"similarity", "hybrid"}
    /\ "CO_CITED" \in EdgeTypes => config.spine \in {"co-citation", "hybrid"}
    /\ "BIB_COUPLED" \in EdgeTypes => config.spine \in {"coupling", "hybrid"}
    /\ config.spine = "citation" => EdgeTypes \subseteq {"CITES"}

\* A citation build has returned with CITES edges from which both a co-cited
\* pair and a coupled pair follow, and three papers of which two are similar.
C15_Witness ==
    /\ bpc = "returned"
    /\ Len(runs) = 1
    /\ config.spine = "citation"
    /\ EdgeTypes = {"CITES"}
    /\ computeCoCitation(edges) # <<>>
    /\ computeBibCoupling(edges) # <<>>
    /\ buildSimilarityEdges([i \in 1..Len(papers) |-> <<i, i>>], buildCorpus(papers),
                            DefaultTopK, DefaultThreshold) # <<>>

\* A hybrid build has returned with edges of all four types.
C15_HybridAllTypes ==
    /\ bpc = "returned"
    /\ Len(runs) = 1
    /\ config.spine = "hybrid"
    /\ EdgeTypes = {"CITES", "SIMILAR_TEXT", "CO_CITED", "BIB_COUPLED"}

\* ------------------------------------------------------------------------
\* Claims about failures inside the traversal
\* ------------------------------------------------------------------------
StoreFailed == \E i \in 1..Len(faults) : faults[i] \in StoreCalls

\* C16: a store bulk insert that fails during a build, insertPapers or
\* insertEdges inside the traversal included, propagates out of buildGraph and
\* aborts the build: no later stage runs and no run row is written.
C16_StoreFailureAborts ==
    StoreFailed => (bpc = "thrown" /\ runs = <<>>)

FetchFailed == \E i \in 1..Len(faults) : faults[i] = "fetchReferences"

\* The rows the store held when the call threw are still there.
RowsRemain ==
    /\ Len(papers) >= Len(atFault.papers)
    /\ \A i \in 1..Len(atFault.papers) : paperKey(papers[i]) = paperKey(atFault.papers[i])
    /\ Len(edges) >= Len(atFault.edges)
    /\ SubSeq(edges, 1, Len(atFault.edges)) = atFault.edges

FirstRowRan(call) ==
    CASE call.op = "insertPapers" -> bindable(call.arg[1])
      [] call.op = "insertEdges" -> call.arg[1].dst_paper_id \in 1..Len(call.before.papers)
      [] call.op = "insertClusters" -> call.arg[1][1] \in 1..Len(call.before.papers)

\* C17: a bulk insert (insertPapers, insertEdges, insertClusters) that fails
\* part-way through its batch persists none of that call's rows: the tables
\* hold what they held before the call.
C17_FailedBulkInsertPersistsNothing ==
    (calls # <<>> /\ ~LastCall.ok) => TablesNow = LastCall.before

\* With a paper stored, an insertEdges whose second edge has no stored endpoint
\* and an insertClusters whose second cluster has no stored member have failed,
\* each after its first row had run.
C17_Witness ==
    /\ Len(calls) = 3
    /\ papers # <<>>
    /\ \A i \in 2..3 : ~calls[i].ok /\ Len(calls[i].arg) = 2 /\ FirstRowRan(calls[i])
    /\ {calls[i].op : i \in 2..3} = {"insertEdges", "insertClusters"}

\* An insertPapers has failed at its second paper.
C17_PapersWitness ==
    /\ calls # <<>>
    /\ LastCall.op = "insertPapers"
    /\ ~LastCall.ok
    /\ Len(LastCall.arg) = 2
    /\ FirstRowRan(LastCall)
    /\ LastCall.arg[1].source_id \notin {LastCall.before.papers[i].source_id :
                                            i \in 1..Len(LastCall.before.papers)}

\* ------------------------------------------------------------------------
\* Claims about the adapters
\* ------------------------------------------------------------------------
AdapterOps == {"searchByTopic", "searchByTitle", "fetchPaper", "fetchReferences",
               "fetchCitations"}

\* C19: for both adapters, when the transport raises an error fetchPaper
\* returns null, fetchReferences and fetchCitations return an empty list and no
\* exception escapes, and searchByTopic and searchByTitle propagate the error.
C19_AdapterErrorHandling ==
    (fOp \in AdapterOps /\ fOut.raised) =>
        /\ fOp = "fetchPaper" => (~fOut.threw /\ fOut.null)
        /\ fOp \in {"fetchReferences", "fetchCitations"} =>
               (~fOut.threw /\ ~fOut.null /\ fOut.papers = <<>>)
        /\ fOp \in {"searchByTopic", "searchByTitle"} => fOut.threw

\* The same, leaving out fetchCitations of the OpenAlex adapter.
C19_AllButOpenAlexCitations ==
    (fOp = "fetchCitations" /\ fIn.adapter = "openalex") \/ C19_AdapterErrorHandling

\* ------------------------------------------------------------------------
\* Claims about the clusters
\* ------------------------------------------------------------------------
\* The member lists name every paper 1..n once.
IsPartition(lists, n) ==
    /\ \A k \in 1..Len(lists) : \A i, j \in 1..Len(lists[k]) : i # j => lists[k][i] # lists[k][j]
    /\ \A k, l \in 1..Len(lists) : k # l => Range(lists[k]) \cap Range(lists[l]) = {}
    /\ UNION {Range(lists[k]) : k \in 1..Len(lists)} = 1..n

ClusterRowsOf(p) == {pc \in paper_clusters : pc[1] = p}

\* Whatever computeLouvainClusters returns for the stored graph, its member
\* lists are pairwise disjoint and their union is the paper set.
MemberListsPartition ==
    (bpc = "clusters" /\ ~louvainThrows(Len(papers), edges)) =>
        \A c \in louvainOutcomes(Len(papers), louvainArcs(Len(papers), edges)) :
            IsPartition(clusterMembers(Len(papers), c), Len(papers))

\* C20: after clustering every paper belongs to exactly one community: the
\* member lists computeLouvainClusters returns are pairwise disjoint and cover
\* the paper set, and after the build every stored paper has exactly one
\* paper_clusters row.
C20_OneCommunityPerPaper ==
    /\ MemberListsPartition
    /\ (bpc = "returned" /\ runs # <<>>) =>
           \A p \in 1..Len(papers) : Cardinality(ClusterRowsOf(p)) = 1

\* The same for the first build into an empty store only.
C20_FirstBuildOnly ==
    /\ MemberListsPartition
    /\ (bpc = "returned" /\ runs # <<>> /\ buildNo = 1) =>
           \A p \in 1..Len(papers) : Cardinality(ClusterRowsOf(p)) = 1

\* A first build has returned with two papers in one community and a third in
\* its own.
C20_FirstBuildClustered ==
    /\ bpc = "returned"
    /\ buildNo = 1
    /\ Len(runs) = 1
    /\ Len(papers) = 3
    /\ Len(clusters) = 2
\* ------------------------------------------------------------------------
\* Claims about the composite scores
\* ------------------------------------------------------------------------
InUnitInterval(s) == s.kind = "number" /\ 0 <= s.num /\ s.num <= s.den

\* C21: for every paper list (any years, null included), PageRank map, corpus,
\* topic and non-negative weights summing to 1, every score computeCompositeScores
\* returns lies in [0, 1].
C21_CompositeScoreInUnitInterval ==
    fOp = "computeCompositeScores" => \A i \in 1..Len(fOut) : InUnitInterval(fOut[i])

\* What does hold: the scores lie in [0, 1] when no paper is older than the
\* oldest year the filter keeps, that is when every year is null or above 1900.
C21_ModernYearsOnly ==
    (/\ fOp = "computeCompositeScores"
     /\ \A i \in 1..Len(fIn.years) : fIn.years[i] = Null \/ fIn.years[i] > MinYear)
        => \A i \in 1..Len(fOut) : InUnitInterval(fOut[i])

\* ------------------------------------------------------------------------
\* Claims about the ids the store returns
\* ------------------------------------------------------------------------
\* C22: insertPapers returns one id per input paper, in input order, and
\* ids[i] is the id of the row whose (source, source_id) is that of papers[i],
\* also for a key that was stored before the call or earlier in the batch.
C22_InsertPapersIdsAligned ==
    (calls # <<>> /\ LastCall.op = "insertPapers") =>
        /\ Len(LastCall.ret) = Len(LastCall.arg)
        /\ \A i \in 1..Len(LastCall.arg) :
              /\ LastCall.ret[i] \in 1..Len(papers)
              /\ KeyOf(papers[LastCall.ret[i]]) = KeyOf(LastCall.arg[i])

\* C22 witness: a batch of two papers, the first with the key stored before
\* the call, the second with a new key.
C22_Witness ==
    /\ calls # <<>>
    /\ LastCall.op = "insertPapers"
    /\ Len(LastCall.arg) = 2
    /\ KeyOf(LastCall.arg[1]) \in KeysOf(LastCall.before)
    /\ KeyOf(LastCall.arg[2]) \notin KeysOf(LastCall.before)
    /\ Len(LastCall.before) = 1
    /\ LastCall.ret = <<1, 2>>

\* A batch that repeats a new key gets the new row's id twice.
C22_RepeatInBatch ==
    /\ calls # <<>>
    /\ LastCall.op = "insertPapers"
    /\ Len(LastCall.arg) = 2
    /\ KeyOf(LastCall.arg[1]) = KeyOf(LastCall.arg[2])
    /\ KeyOf(LastCall.arg[1]) \notin KeysOf(LastCall.before)
    /\ LastCall.ret[1] = LastCall.ret[2]

\* ------------------------------------------------------------------------
\* Claims about timeouts and tokens of the transport
\* ------------------------------------------------------------------------
Aborted == lastOutcome.kind = "error" /\ lastOutcome.name = "AbortError"

\* C23: an attempt that the per-request timeout aborts is retried after a
\* backoff while retries remain: request() throws for an abort only when the
\* aborted attempt was the last one the loop allows.
C23_AbortIsRetried ==
    (hpc = "thrown" /\ Aborted) => attempt = maxRetries

\* After an abort the request never sleeps: it has thrown at once, with an
\* HttpError that is flagged retryable.
C23_AbortThrowsAtOnce ==
    Aborted => /\ hpc = "thrown"
               /\ result = [kind |-> "HttpError", status |-> 0, retryable |-> TRUE]

\* ------------------------------------------------------------------------
\* Claims about the frontiers of the traversal
\* ------------------------------------------------------------------------
SourceIdsOf(s) == {s[i].source_id : i \in 1..Len(s)}

\* C24: traverseCitations runs at most config.depth frontier iterations
\* whatever the reference graph, cycles included, and puts each paper into a
\* frontier at most once over the whole traversal.
C24_FrontierOncePerPaper ==
    /\ dLoop <= config.depth
    /\ bpc = "papers" => dLoop < config.depth
    /\ \A i, j \in 1..Len(placed) : placed[i] = placed[j] => i = j
    /\ SourceIdsOf(frontier) \cup SourceIdsOf(nextFrontier) \subseteq Range(placed)

\* C24 witness: papers 1 and 2 cite each other; the traversal from seed 1 has
\* gone through both and ended with each of them placed once.
C24_Witness ==
    /\ bpc = "analytic"
    /\ config.depth = 2
    /\ 2 \in Range(references[1])
    /\ 1 \in Range(references[2])
    /\ placed = <<1, 2>>

\* The traversal ends.
C24_TraversalEnds == <>(bpc \notin {"findSeeds", "insertSeeds", "depth", "papers"})

\* ------------------------------------------------------------------------
\* Claims about the citation edges
\* ------------------------------------------------------------------------
CitesRows(src, dst) ==
    {i \in 1..Len(edges) : /\ IsCites(edges[i])
                           /\ edges[i].src_paper_id = src
                           /\ edges[i].dst_paper_id = dst}

\* C25: within one build on a store that was empty at the start, at most one
\* CITES edge is persisted per ordered pair (citer id, cited id), also when the
\* adapter returns a reference twice or the cited paper was stored before.
C25_OneCitesEdgePerPair ==
    \A i, j \in 1..Len(edges) :
        (/\ IsCites(edges[i]) /\ IsCites(edges[j])
         /\ edges[i].src_paper_id = edges[j].src_paper_id
         /\ edges[i].dst_paper_id = edges[j].dst_paper_id) => i = j

\* C25 witness: both seeds were stored before the traversal, paper 1's
\* references name paper 2 twice, and the build returned with one edge 1 -> 2.
C25_Witness ==
    /\ bpc = "returned"
    /\ topicResults = <<1, 2>>
    /\ references[1] = <<2, 2>>
    /\ Cardinality(CitesRows(1, 2)) = 1

\* ------------------------------------------------------------------------
\* Claims about the seeds
\* ------------------------------------------------------------------------
Clamp(x, lo, hi) == IF x < lo THEN lo ELSE IF x > hi THEN hi ELSE x

\* The candidates in the order of the claim: the topic results, the first
\* result of each title search, the paper of each DOI.
SeedCandidates ==
    fIn.topicAnswer
        \o [i \in 1..Len(SelectSeq(fIn.titleAnswers, LAMBDA a : a # <<>>)) |->
               SelectSeq(fIn.titleAnswers, LAMBDA a : a # <<>>)[i][1]]
        \o SelectSeq(fIn.doiAnswers, LAMBDA d : d # Null)

\* C26: findSeeds returns the topic results, then the first title-search result
\* per title, then the fetched paper per DOI, without a repeated
\* (source, source_id), cut to clamp(floor(maxPapers * 0.4), 10, 200) seeds.
C26_SeedsOrderedUniqueCapped ==
    fOp = "findSeeds" =>
        LET wanted == Dedup(SeedCandidates)
            limit == Clamp((fIn.maxPapers * 4) \div 10, 10, 200)
        IN  /\ [i \in 1..Len(fOut) |-> fOut[i].source_id]
                  = SubSeq(wanted, 1, Min(Len(wanted), limit))
            /\ \A i, j \in 1..Len(fOut) : paperKey(fOut[i]) = paperKey(fOut[j]) => i = j
            /\ Len(fOut) <= limit

\* C26 witness: seeds of all three kinds, a repeated one dropped, and the list
\* cut at the limit.
C26_Witness ==
    /\ fOp = "findSeeds"
    /\ fIn.maxPapers = 30
    /\ fIn.topicAnswer = [i \in 1..10 |-> i]
    /\ fIn.titleAnswers = << <<11, 1>>, <<1>> >>
    /\ fIn.doiAnswers = <<12, 14>>
    /\ [i \in 1..Len(fOut) |-> fOut[i].source_id] = [i \in 1..12 |-> i]

\* ------------------------------------------------------------------------
\* Claims about the response cache
\* ------------------------------------------------------------------------
\* The latest set() of the URL of the last call is at most TtlMs old at the call.
SetWithinTtl ==
    /\ fIn.sets[fOut.url] # <<>>
    /\ fOut.at - fIn.sets[fOut.url][1].at <= TtlMs

C27_ExpiredSeen ==
    /\ fOp = "has"
    /\ fIn.enabled
    /\ fIn.sets[fOut.url] # <<>>
    /\ fOut.at - fIn.sets[fOut.url][1].at > TtlMs
    /\ ~fOut.ret

\* ------------------------------------------------------------------------
\* Claims about the top terms of a cluster
\* ------------------------------------------------------------------------
SingleDocumentCorpus == fOp = "getTopTerms" /\ Len(fIn.tokenLists) = 1

AllWeightsZero ==
    \A d \in DOMAIN fOut.documents :
        \A i \in 1..Len(fOut.documents[d]) : fOut.documents[d][i].weight = 0

\* C28: for a corpus built from a single document every term weight is 0 and
\* getTopTerms returns an empty list for any k, so the cluster is named
\* "Cluster <community_id>".
C28_SingleDocumentFallsBack ==
    SingleDocumentCorpus =>
        /\ AllWeightsZero
        /\ fOut.top = <<>>
        /\ fOut.name.kind = "fallback"

\* What the code does for a single document: the weights are all 0, and the
\* first topN distinct tokens of the document come back.
C28_SingleDocumentTopTerms ==
    SingleDocumentCorpus =>
        /\ AllWeightsZero
        /\ 1 \in Range(fIn.docIds) =>
              fOut.top = SubSeq(Dedup(fIn.tokenLists[1]), 1,
                                Min(fIn.topN, Len(Dedup(fIn.tokenLists[1]))))

\* A single-document corpus whose cluster is named after zero-weight terms.
C28_ZeroWeightName ==
    /\ SingleDocumentCorpus
    /\ fIn.topN = MaxTopN
    /\ fOut.name.kind = "terms"
    /\ Len(fOut.top) = 2

\* ------------------------------------------------------------------------
\* Claims about the id upsertPaper returns
\* ------------------------------------------------------------------------
UpsertDone == calls # <<>> /\ LastCall.op = "upsertPaper"
UpsertUpdated == UpsertDone /\ KeyOf(LastCall.arg[1]) \in KeysOf(LastCall.before)

\* C29: upsertPaper returns the internal id of the one row whose
\* (source, source_id) is the argument's, when it inserts and when it updates,
\* after any earlier inserts of other papers on the same handle.
C29_UpsertReturnsRowOfKey ==
    UpsertDone =>
        /\ Cardinality(RowsWithKey(papers, KeyOf(LastCall.arg[1]))) = 1
        /\ LastCall.ret[1] \in RowsWithKey(papers, KeyOf(LastCall.arg[1]))

\* What the code returns: the row of the key when the call inserted, and the
\* connection's last insert rowid when the call updated and that rowid is not 0.
C29_UpsertReturnsLastInsertRowid ==
    UpsertDone =>
        /\ ~UpsertUpdated => LastCall.ret[1] \in RowsWithKey(papers, KeyOf(LastCall.arg[1]))
        /\ (UpsertUpdated /\ lastInsertRowid # 0) => LastCall.ret[1] = lastInsertRowid

\* An update of the first row after another paper was inserted returns the id
\* of that other paper.
C29_StaleRowid ==
    /\ UpsertUpdated
    /\ Len(papers) = 2
    /\ RowsWithKey(papers, KeyOf(LastCall.arg[1])) = {1}
    /\ LastCall.ret = <<2>>

\* ------------------------------------------------------------------------
\* Claims about tokens and retries
\* ------------------------------------------------------------------------
\* Tokens the request in progress (or the last one) has taken from the bucket.
TokensTakenByRequest == IF hpc \in {"idle", "acquireWait"} THEN 0 ELSE 1

\* C30: every outbound attempt to a source, each retry included, is preceded
\* by taking one token from the source's bucket: a request never has more
\* fetch() calls behind it than tokens taken.
C30_TokenPerAttempt == nfetch <= TokensTakenByRequest

\* What the code does: one token per request() call, however many attempts.
C30_TokenPerRequest ==
    /\ requestCounts = nreq - (IF hpc = "acquireWait" THEN 1 ELSE 0)
    /\ nfetch <= attempt + 1

\* A retry issued 0 ms after the failed attempt (Retry-After: 0) on the source
\* with one token per second, while the bucket holds less than one token.
C30_BackToBackRetry ==
    /\ srcKey = "s2"
    /\ hpc \in {"returned", "thrown", "backoff"}
    /\ nfetch = 2
    /\ lastSleep = [after |-> 1, ms |-> 0]
    /\ tokens < OneToken

====
